---------------------------- MODULE Spec2Model ----------------------------
(***************************************************************************)
(* rustcalc: the lexer (src/src/lexer.rs) and the precedence-climbing      *)
(* parser (src/src/parser.rs), as a state machine.                         *)
(*                                                                         *)
(* A character is its Unicode scalar value (a number); a string is a       *)
(* sequence of characters.  The parser's call stack is explicit: one frame *)
(* per active call of Parser::parse, parse_expression or parse_atom.       *)
(***************************************************************************)
EXTENDS Integers, Sequences, FiniteSets, TLC

(***************************************************************************)
(* Characters                                                              *)
(***************************************************************************)
\* Readable names for the characters of the model's alphabet.  Names of one
\* character stand for themselves; the others name a non-printing or
\* non-ASCII character.
Ord ==
    [c \in {"0", "1", "2", "3", "4", "5", "6", "7", "8", "9"} |->
        CASE c = "0" -> 48 [] c = "1" -> 49 [] c = "2" -> 50 [] c = "3" -> 51
          [] c = "4" -> 52 [] c = "5" -> 53 [] c = "6" -> 54 [] c = "7" -> 55
          [] c = "8" -> 56 [] c = "9" -> 57]
    @@ [c \in {" ", "TAB", "!", "$", "%", "(", ")", "*", "+", ",", "-", ".", "/",
               "^", "_", "SQRT", "PI", "CAPITAL_PI", "I_DIAERESIS", "EURO"} |->
        CASE c = " " -> 32 [] c = "TAB" -> 9 [] c = "!" -> 33 [] c = "$" -> 36
          [] c = "%" -> 37 [] c = "(" -> 40 [] c = ")" -> 41 [] c = "*" -> 42
          [] c = "+" -> 43 [] c = "," -> 44 [] c = "-" -> 45 [] c = "." -> 46
          [] c = "/" -> 47 [] c = "^" -> 94 [] c = "_" -> 95
          [] c = "SQRT" -> 8730          \* U+221A, the square root sign
          [] c = "PI" -> 960             \* U+03C0, greek small letter pi
          [] c = "CAPITAL_PI" -> 928     \* U+03A0, greek capital letter pi
          [] c = "I_DIAERESIS" -> 207    \* U+00CF, latin capital i with diaeresis
          [] c = "EURO" -> 8364]         \* U+20AC, the euro sign
    @@ [c \in {"a", "c", "d", "e", "f", "g", "i", "n", "o", "p", "q", "r", "s",
               "t", "u", "x"} |->
        CASE c = "a" -> 97 [] c = "c" -> 99 [] c = "d" -> 100 [] c = "e" -> 101
          [] c = "f" -> 102 [] c = "g" -> 103 [] c = "i" -> 105 [] c = "n" -> 110
          [] c = "o" -> 111 [] c = "p" -> 112 [] c = "q" -> 113 [] c = "r" -> 114
          [] c = "s" -> 115 [] c = "t" -> 116 [] c = "u" -> 117 [] c = "x" -> 120]
    @@ [c \in {"E", "I", "N", "P", "Q", "R", "S", "T"} |->
        CASE c = "E" -> 69 [] c = "I" -> 73 [] c = "N" -> 78 [] c = "P" -> 80
          [] c = "Q" -> 81 [] c = "R" -> 82 [] c = "S" -> 83 [] c = "T" -> 84]

\* The string spelled by a sequence of character names.
Str(names) == [i \in 1..Len(names) |-> Ord[names[i]]]

\* char::is_digit(10): the characters it holds of
IsDigit == 48..57

\* char::is_alphabetic, on the model's alphabet: the ASCII letters, U+00CF and
\* U+00EF, U+03A0 and U+03C0.  The euro sign U+20AC is a currency symbol.
IsAlphabetic == (65..90) \cup (97..122) \cup {207, 239, 928, 960}

\* char::is_alphanumeric
IsAlphanumeric == IsAlphabetic \cup IsDigit

\* char::is_whitespace, on the model's alphabet
IsWhitespace == {9, 32}

\* char::to_lowercase
LowerChar(c) ==
    IF c \in 65..90 THEN c + 32
    ELSE IF c = 207 THEN 239
    ELSE IF c = 928 THEN 960
    ELSE c

\* str::to_lowercase
ToLowercase(s) == [i \in 1..Len(s) |-> LowerChar(s[i])]

(***************************************************************************)
(* Lexer                                                                   *)
(***************************************************************************)
\* A token, or another outcome of Lexer::next: kind "EOF" is the iterator's
\* None, kind "Err" the error "Unexpected character c" with text = <<c>>.
Tok(kind, text) == [kind |-> kind, text |-> text]

\* Token's Display
TokenDisplay(t) ==
    CASE t.kind \in {"Number", "Ident"} -> t.text
      [] t.kind = "Plus" -> Str(<<"+">>)
      [] t.kind = "Minus" -> Str(<<"-">>)
      [] t.kind = "Asterisk" -> Str(<<"*">>)
      [] t.kind = "Slash" -> Str(<<"/">>)
      [] t.kind = "Caret" -> Str(<<"^">>)
      [] t.kind = "SquareRoot" -> Str(<<"SQRT">>)
      [] t.kind = "Percent" -> Str(<<"%">>)
      [] t.kind = "Exclamation" -> Str(<<"!">>)
      [] t.kind = "OpenParen" -> Str(<<"(">>)
      [] t.kind = "CloseParen" -> Str(<<")">>)
      [] t.kind = "Comma" -> Str(<<",">>)

\* Lexer::next_if on the character iterator: is there a next character, and
\* does it satisfy the predicate (given as the set of the characters that do)?
CharIs(s, pos, pred) == pos <= Len(s) /\ s[pos] \in pred

\* Lexer::next_while: the first position at or after pos whose character does
\* not satisfy the predicate (the end of the string when all do).
NextWhile(s, pos, pred) ==
    CHOOSE p \in pos..(Len(s) + 1) :
        /\ ~CharIs(s, p, pred)
        /\ \A q \in pos..(p - 1) : CharIs(s, q, pred)

ConsumeWhitespace_None(s, pos) == pos

\* Lexer::consume_whitespace
ConsumeWhitespace(s, pos) == NextWhile(s, pos, IsWhitespace)

\* The first n items of the lexer from position pos on (Iterator::take).
RECURSIVE LexFrom(_, _, _)

\* The predicates of Lexer::scan_ident and Lexer::scan_number
IsIdentRest == IsAlphanumeric \cup {95}
IsDot == {46}
IsExp == {101, 69}
IsSign == {43, 45}

\* Lexer::scan_ident: the position after the identifier that starts at pos, or
\* pos when none starts there.
ScanIdent(s, pos) ==
    IF CharIs(s, pos, IsAlphabetic) THEN NextWhile(s, pos + 1, IsIdentRest) ELSE pos

\* Lexer::scan_number, its optional fraction: the position after a '.' and
\* the digits behind it, or p when there is no '.' at p.
ScanFraction(s, p) ==
    IF CharIs(s, p, IsDot) THEN NextWhile(s, p + 1, IsDigit) ELSE p

ScanExponent_NeedsDigits(s, p) ==
    IF CharIs(s, p, IsExp) /\ CharIs(s, IF CharIs(s, p + 1, IsSign) THEN p + 2 ELSE p + 1, IsDigit)
    THEN NextWhile(s, IF CharIs(s, p + 1, IsSign) THEN p + 2 ELSE p + 1, IsDigit)
    ELSE p

\* Lexer::scan_number, its optional exponent: the position after an 'e' or
\* 'E', an optional sign and the digits behind them, or p when there is no
\* 'e' or 'E' at p.
ScanExponent(s, p) ==
    IF CharIs(s, p, IsExp)
    THEN NextWhile(s, IF CharIs(s, p + 1, IsSign) THEN p + 2 ELSE p + 1, IsDigit)
    ELSE p

\* Lexer::scan_number: the position after the number that starts at pos, or pos
\* when none starts there.
ScanNumber(s, pos) ==
    LET p1 == NextWhile(s, pos, IsDigit)
    IN  IF p1 = pos THEN pos ELSE ScanExponent(s, ScanFraction(s, p1))

\* Lexer::scan_operator: the kind of the operator token for a character, or
\* "" when it is none.
ScanOperator(c) ==
    CASE c = 43 -> "Plus"
      [] c = 45 -> "Minus"
      [] c = 42 -> "Asterisk"
      [] c = 47 -> "Slash"
      [] c = 94 -> "Caret"
      [] c = 8730 -> "SquareRoot"
      [] c = 37 -> "Percent"
      [] c = 33 -> "Exclamation"
      [] OTHER -> ""

\* Lexer::scan_punctuation
ScanPunctuation(c) ==
    CASE c = 40 -> "OpenParen"
      [] c = 41 -> "CloseParen"
      [] c = 44 -> "Comma"
      [] OTHER -> ""

\* Lexer::scan after consume_whitespace has left the character iterator at p:
\* the or_else chain over scan_ident (which ends at pi), scan_number (which
\* ends at pn), scan_operator and scan_punctuation.
ScanToken(s, p, pi, pn) ==
    IF pi # p THEN [item |-> Tok("Ident", SubSeq(s, p, pi - 1)), pos |-> pi]
    ELSE IF pn # p THEN [item |-> Tok("Number", SubSeq(s, p, pn - 1)), pos |-> pn]
    ELSE IF p <= Len(s) /\ ScanOperator(s[p]) # ""
         THEN [item |-> Tok(ScanOperator(s[p]), <<>>), pos |-> p + 1]
    ELSE IF p <= Len(s) /\ ScanPunctuation(s[p]) # ""
         THEN [item |-> Tok(ScanPunctuation(s[p]), <<>>), pos |-> p + 1]
    ELSE [item |-> Tok("", <<>>), pos |-> p]

\* Lexer::scan, with the position it leaves the character iterator at: the
\* token, or kind "" (None) when no production matches.
Scan(s, pos) ==
    LET p == ConsumeWhitespace(s, pos)
    IN  ScanToken(s, p, ScanIdent(s, p), ScanNumber(s, p))

\* Lexer::next (the Iterator) on what scan returned (r): a token, the error
\* for the character no production matches (which is not consumed), or the end
\* of the input.
ScanOrError(s, r) ==
    IF r.item.kind # "" THEN r
    ELSE IF r.pos <= Len(s)
         THEN [item |-> Tok("Err", <<s[r.pos]>>), pos |-> r.pos]
    ELSE [item |-> Tok("EOF", <<>>), pos |-> r.pos]

\* Lexer::next (the Iterator)
LexerNext(s, pos) == ScanOrError(s, Scan(s, pos))

LexFrom(s, pos, n) ==
    IF n = 0 THEN <<>>
    ELSE <<LexerNext(s, pos).item>> \o LexFrom(s, LexerNext(s, pos).pos, n - 1)


\* The lexer behind std::iter::Peekable: the position of the character
\* iterator, and the item a peek has taken from the lexer and not yet handed
\* out (<<>> when there is none).
Lx(pos, peeked) == [pos |-> pos, peeked |-> peeked]

\* What Peekable::next and Peekable::peek make of the item r they take from
\* the lexer: next hands it out, peek keeps it for the next call.
Taken(r) == [item |-> r.item, lx |-> Lx(r.pos, <<>>)]
Kept(r) == [item |-> r.item, lx |-> Lx(r.pos, <<r.item>>)]

\* Peekable::next
PeekableNext(s, lx) ==
    IF lx.peeked # <<>>
    THEN [item |-> lx.peeked[1], lx |-> Lx(lx.pos, <<>>)]
    ELSE Taken(LexerNext(s, lx.pos))

\* Peekable::peek
PeekablePeek(s, lx) ==
    IF lx.peeked # <<>>
    THEN [item |-> lx.peeked[1], lx |-> lx]
    ELSE Kept(LexerNext(s, lx.pos))

(***************************************************************************)
(* Errors and expressions                                                  *)
(***************************************************************************)
\* Error::Parse(message): the message's fixed text, the string formatted into
\* it and the numbers formatted into it.
Error(msg, arg, nums) == [msg |-> msg, arg |-> arg, nums |-> nums]

NoError == Error("", <<>>, <<>>)

\* An Expression: the variant, the Constant of a Constant node, the value of a
\* Number node and the child expressions.
Node(node, name, num, kids) == [node |-> node, name |-> name, num |-> num, kids |-> kids]

NoExpr == Node("", "", <<>>, <<>>)

Number(val) == Node("Number", "", val, <<>>)
Constant(c) == Node("Constant", c, <<>>, <<>>)
Unary(node, operand) == Node(node, "", <<>>, <<operand>>)
Binary(node, lhs, rhs) == Node(node, "", <<>>, <<lhs, rhs>>)
Round(value, decimals) == Node("Round", "", <<>>, <<value, decimals>>)

(***************************************************************************)
(* Operators                                                               *)
(***************************************************************************)
ASSOCIATES_LEFT == 1
ASSOCIATES_RIGHT == 0

\* PrefixOperator::from_token ("" is None)
PrefixFromToken(t) ==
    CASE t.kind = "Minus" -> "Minus"
      [] t.kind = "Plus" -> "Plus"
      [] t.kind = "SquareRoot" -> "SquareRoot"
      [] OTHER -> ""

PrefixBuild_NoRoot(op, operand) ==
    IF op = "Minus" THEN Unary("Negate", operand) ELSE operand

\* PrefixOperator::build
PrefixBuild(op, operand) ==
    CASE op = "Minus" -> Unary("Negate", operand)
      [] op = "Plus" -> operand
      [] op = "SquareRoot" -> Unary("SquareRoot", operand)

PrefixAssociativity_Left(op) == ASSOCIATES_LEFT

PrefixAssociativity(op) == ASSOCIATES_RIGHT

PrefixPrecedence_Low(op) == 3

PrefixPrecedence(op) == 5

\* InfixOperator::from_token
InfixFromToken(t) ==
    CASE t.kind = "Plus" -> "Add"
      [] t.kind = "Minus" -> "Subtract"
      [] t.kind = "Asterisk" -> "Multiply"
      [] t.kind = "Slash" -> "Divide"
      [] t.kind = "Percent" -> "Modulo"
      [] t.kind = "Caret" -> "Exponentiate"
      [] OTHER -> ""

\* InfixOperator::build
InfixBuild(op, lhs, rhs) == Binary(op, lhs, rhs)

InfixAssociativity_AllLeft(op) == ASSOCIATES_LEFT

InfixAssociativity_AllRight(op) == ASSOCIATES_RIGHT

InfixAssociativity(op) ==
    IF op = "Exponentiate" THEN ASSOCIATES_RIGHT ELSE ASSOCIATES_LEFT

InfixPrecedence_Flat(op) == 1

InfixPrecedence(op) ==
    CASE op \in {"Add", "Subtract"} -> 1
      [] op \in {"Multiply", "Divide", "Modulo"} -> 2
      [] op = "Exponentiate" -> 3

\* PostfixOperator::from_token
PostfixFromToken(t) ==
    CASE t.kind = "Exclamation" -> "Factorial"
      [] OTHER -> ""

\* PostfixOperator::build
PostfixBuild(op, operand) == Unary("Factorial", operand)

PostfixAssociativity(op) == ASSOCIATES_LEFT

PostfixPrecedence_Low(op) == 2

PostfixPrecedence(op) == 4

(***************************************************************************)
(* Building the leaves and the function calls                              *)
(***************************************************************************)
\* Result<Expression, Error>
ResOk(expr) == [ok |-> TRUE, expr |-> expr, err |-> NoError]
ResErr(err) == [ok |-> FALSE, expr |-> NoExpr, err |-> err]

\* Parser::build_constant.  The fifth arm of the match is the two-character
\* string U+00CF U+20AC, as the source file has it.
BuildConstant(name) ==
    LET lower == ToLowercase(name)
    IN  CASE lower = Str(<<"e">>) -> ResOk(Constant("E"))
          [] lower = Str(<<"i", "n", "f">>) -> ResOk(Constant("Infinity"))
          [] lower = Str(<<"n", "a", "n">>) -> ResOk(Constant("NaN"))
          [] lower = Str(<<"p", "i">>) -> ResOk(Constant("Pi"))
          [] lower = Str(<<"I_DIAERESIS", "EURO">>) -> ResOk(Constant("Pi"))
          [] OTHER -> ResErr(Error("Unknown constant {}", name, <<>>))

\* The count_args closure of Parser::build_function: NoError when the number
\* of arguments is within min..max.
CountArgs(name, args, min, max) ==
    IF Len(args) >= min /\ Len(args) <= max THEN NoError
    ELSE IF min = max
         THEN Error("{}() takes {} args, received {}", name, <<min, Len(args)>>)
    ELSE Error("{}() takes {}-{} args, received {}", name, <<min, max, Len(args)>>)

BuildFunction_ConstantCall(name, args) ==
    IF args = <<>> /\ ToLowercase(name) = Str(<<"p", "i">>)
    THEN ResOk(Constant("Pi"))
    ELSE ResErr(Error("Unknown function {}", name, <<>>))

\* Parser::build_function
BuildFunction(name, args) ==
    LET lower == ToLowercase(name)
        One(node) ==
            IF CountArgs(name, args, 1, 1) # NoError
            THEN ResErr(CountArgs(name, args, 1, 1))
            ELSE ResOk(Unary(node, args[1]))
    IN  CASE lower = Str(<<"c", "o", "s">>) -> One("Cosine")
          [] lower = Str(<<"d", "e", "g", "r", "e", "e", "s">>) -> One("Degrees")
          [] lower = Str(<<"r", "a", "d", "i", "a", "n", "s">>) -> One("Radians")
          [] lower = Str(<<"r", "o", "u", "n", "d">>) ->
                IF CountArgs(name, args, 1, 2) # NoError
                THEN ResErr(CountArgs(name, args, 1, 2))
                ELSE ResOk(Round(args[1],
                                 IF Len(args) = 1 THEN Number(<<0, 0>>) ELSE args[2]))
          [] lower = Str(<<"s", "i", "n">>) -> One("Sine")
          [] lower = Str(<<"s", "q", "r", "t">>) -> One("SquareRoot")
          [] lower = Str(<<"t", "a", "n">>) -> One("Tangent")
          [] OTHER -> ResErr(Error("Unknown function {}", name, <<>>))

\* The arguments (from 1) that the arm of Parser::build_function for the name
\* reads with arg(n), which is args[n] and panics beyond the arguments given:
\* none before count_args has passed.
ArgsRead(name, args) ==
    LET lower == ToLowercase(name)
    IN  CASE lower \in {Str(<<"c", "o", "s">>), Str(<<"d", "e", "g", "r", "e", "e", "s">>),
                        Str(<<"r", "a", "d", "i", "a", "n", "s">>), Str(<<"s", "i", "n">>),
                        Str(<<"s", "q", "r", "t">>), Str(<<"t", "a", "n">>)} ->
                IF CountArgs(name, args, 1, 1) # NoError THEN {} ELSE {1}
          [] lower = Str(<<"r", "o", "u", "n", "d">>) ->
                IF CountArgs(name, args, 1, 2) # NoError THEN {}
                ELSE IF Len(args) = 1 THEN {1} ELSE {2, 1}
          [] OTHER -> {}

\* The number a string of decimal digits denotes.
RECURSIVE DigitsValue(_)
DigitsValue(ds) ==
    IF ds = <<>> THEN 0
    ELSE 10 * DigitsValue(SubSeq(ds, 1, Len(ds) - 1)) + (ds[Len(ds)] - 48)

\* m * 10^e without trailing zeros in m.
RECURSIVE Decimal(_, _)
Decimal(m, e) ==
    IF m = 0 THEN <<0, 0>>
    ELSE IF m % 10 = 0 THEN Decimal(m \div 10, e + 1)
    ELSE <<m, e>>

\* str::parse::<f64> on an unsigned decimal literal: digits, an optional '.'
\* and digits, an optional exponent that must have a digit; nothing may
\* follow.  The value is kept exact, as <<m, e>> for m * 10^e.
ParseFloat(lit) ==
    LET p1 == NextWhile(lit, 1, IsDigit)
        p2 == IF CharIs(lit, p1, IsDot) THEN NextWhile(lit, p1 + 1, IsDigit) ELSE p1
        int == SubSeq(lit, 1, p1 - 1)
        frac == SubSeq(lit, p1 + 1, p2 - 1)
        hasExp == CharIs(lit, p2, IsExp)
        p3 == IF CharIs(lit, p2 + 1, IsSign) THEN p2 + 2 ELSE p2 + 1
        p4 == NextWhile(lit, p3, IsDigit)
        exp == DigitsValue(SubSeq(lit, p3, p4 - 1))
        end == IF hasExp THEN p4 ELSE p2
        ok == /\ Len(int) + Len(frac) >= 1
              /\ hasExp => p4 > p3
              /\ end = Len(lit) + 1
        e == IF ~hasExp THEN 0
             ELSE IF p3 = p2 + 2 /\ lit[p2 + 1] = 45 THEN 0 - exp
             ELSE exp
    IN  [ok |-> ok,
         val |-> IF ok THEN Decimal(DigitsValue(int \o frac), e - Len(frac)) ELSE <<0, 0>>]

\* Parser::build_number, with From<ParseFloatError> for Error
BuildNumber(literal) ==
    IF ParseFloat(literal).ok
    THEN ResOk(Number(ParseFloat(literal).val))
    ELSE ResErr(Error("invalid number: {}", <<>>, <<>>))

(***************************************************************************)
(* The parser's access to the lexer                                        *)
(***************************************************************************)
ParserNext_EndAsToken(s, lx) ==
    LET r == PeekableNext(s, lx)
    IN  IF r.item.kind \in {"EOF", "Err"}
        THEN [ok |-> FALSE, tok |-> r.item, lx |-> r.lx,
              err |-> Error("Unexpected character {}", r.item.text, <<>>)]
        ELSE [ok |-> TRUE, tok |-> r.item, lx |-> r.lx, err |-> NoError]

\* Parser::next on what Peekable::next returned (r): ok_or_else for the end
\* of the input, and the lexer's Result.
NextResult(r) ==
    IF r.item.kind = "EOF"
    THEN [ok |-> FALSE, tok |-> r.item, lx |-> r.lx,
          err |-> Error("Unexpected end of input", <<>>, <<>>)]
    ELSE IF r.item.kind = "Err"
    THEN [ok |-> FALSE, tok |-> r.item, lx |-> r.lx,
          err |-> Error("Unexpected character {}", r.item.text, <<>>)]
    ELSE [ok |-> TRUE, tok |-> r.item, lx |-> r.lx, err |-> NoError]

\* Parser::next: Result<Token, Error>, and the lexer afterwards.
ParserNext(s, lx) == NextResult(PeekableNext(s, lx))

\* Parser::peek on what Peekable::peek returned (r): the transpose of
\* Option<Result<Token>>.
PeekResult(r) ==
    IF r.item.kind = "EOF"
    THEN [ok |-> TRUE, some |-> FALSE, tok |-> r.item, lx |-> r.lx, err |-> NoError]
    ELSE IF r.item.kind = "Err"
    THEN [ok |-> FALSE, some |-> FALSE, tok |-> r.item, lx |-> r.lx,
          err |-> Error("Unexpected character {}", r.item.text, <<>>)]
    ELSE [ok |-> TRUE, some |-> TRUE, tok |-> r.item, lx |-> r.lx, err |-> NoError]

\* Parser::peek: Result<Option<Token>, Error>; some is FALSE for Ok(None).
ParserPeek(s, lx) == PeekResult(PeekablePeek(s, lx))

\* Parser::next_if on what Parser::peek returned (p), with the predicate
\* |t| *t == token of the given kind: peek().unwrap_or(None) turns a lexer
\* error into None, and self.next().ok() takes the token that was peeked.
NextIfPeeked(s, p, kind) ==
    IF p.ok /\ p.some /\ p.tok.kind = kind
    THEN [some |-> ParserNext(s, p.lx).ok, lx |-> ParserNext(s, p.lx).lx]
    ELSE [some |-> FALSE, lx |-> p.lx]

\* Parser::next_if
NextIf(s, lx, kind) == NextIfPeeked(s, ParserPeek(s, lx), kind)

TokenKinds ==
    {"Number", "Ident", "Plus", "Minus", "Asterisk", "Slash", "Caret", "SquareRoot",
     "Percent", "Exclamation", "OpenParen", "CloseParen", "Comma"}

\* Parser::next_if_operator on what Parser::peek returned (p): the operizer is
\* applied to a token that was peeked, and self.next() takes that token when the
\* operizer made an operator of it.
OperatorPeeked(s, p, operizer) ==
    IF p.ok /\ p.some /\ operizer[p.tok.kind] # ""
    THEN [op |-> operizer[p.tok.kind], lx |-> ParserNext(s, p.lx).lx]
    ELSE [op |-> "", lx |-> p.lx]

\* Parser::next_if_operator: the operator the operizer (a function of the
\* token's kind) makes of the next token ("" is None), which is consumed when
\* there is one.
NextIfOperator(s, lx, operizer) == OperatorPeeked(s, ParserPeek(s, lx), operizer)

\* The three uses of next_if_operator in Parser::parse_expression.
NextIfPrefix(s, lx) ==
    NextIfOperator(s, lx, [k \in TokenKinds |-> PrefixFromToken(Tok(k, <<>>))])

NextIfPostfix(s, lx, min_prec) ==
    LET Operizer(t) ==
            IF PostfixFromToken(t) # "" /\ PostfixPrecedence(PostfixFromToken(t)) >= min_prec
            THEN PostfixFromToken(t) ELSE ""
    IN  NextIfOperator(s, lx, [k \in TokenKinds |-> Operizer(Tok(k, <<>>))])

NextIfInfix(s, lx, min_prec) ==
    LET Operizer(t) ==
            IF InfixFromToken(t) # "" /\ InfixPrecedence(InfixFromToken(t)) >= min_prec
            THEN InfixFromToken(t) ELSE ""
    IN  NextIfOperator(s, lx, [k \in TokenKinds |-> Operizer(Tok(k, <<>>))])

(***************************************************************************)
(* The parser as a state machine                                           *)
(***************************************************************************)
VARIABLES
    input,      \* the string given to Parser::new
    lexer,      \* Parser.lexer: the peekable lexer over input
    stack,      \* the active calls, the innermost last
    ret,        \* <<expr>> while a call has returned Ok(expr) to its caller
    result,     \* what Parser::parse has returned
    tokens,     \* the items Lexer::next has returned to a caller that iterates the lexer
    values,     \* the numbers Expression::evaluate has returned for the parsed tree
    steps,      \* the steps the calls of the parser have taken so far
    cli         \* CLI::run: where it is, what it has read, printed and returned

vars == <<input, lexer, stack, ret, result, tokens, values, steps, cli>>

\* What CLI::run has returned: nothing yet ("none"), Ok(()) ("ok") or an error
\* ("err") that came from the parser ("Parse") or from readline ("IO").
Exit(status, kind, err) == [status |-> status, kind |-> kind, err |-> err]

\* CLI::run at position pc: the debug flag, the positional argument "expr"
\* (<<>> when absent, <<text>> when given), the outcome of the last readline
\* (event), the lines readline has returned (history), what was printed while
\* each of them was handled (out), and what run has returned (exit).
Cli(pc, debug, arg, event, history, out, exit) ==
    [pc |-> pc, debug |-> debug, arg |-> arg, event |-> event, history |-> history,
     out |-> out, exit |-> exit]

\* No CLI: the parser, the lexer or the evaluation used on its own.
NoCli == Cli("none", FALSE, <<>>, "", <<>>, <<>>, Exit("none", "", NoError))

\* A call of Parser::parse ("parse"), parse_expression ("expr") or parse_atom
\* ("atom"): where it is (stage) and its local variables.
Frame(fn, stage, min_prec, op, lhs, name, args) ==
    [fn |-> fn, stage |-> stage, min_prec |-> min_prec, op |-> op, lhs |-> lhs,
     name |-> name, args |-> args]

ParseFrame == Frame("parse", "start", 0, "", NoExpr, <<>>, <<>>)
ExprFrame(min_prec) == Frame("expr", "start", min_prec, "", NoExpr, <<>>, <<>>)
AtomFrame == Frame("atom", "start", 0, "", NoExpr, <<>>, <<>>)

Top == stack[Len(stack)]

Running == stack # <<>>

\* The innermost call moves on to frame f.
Goto(f) == [stack EXCEPT ![Len(stack)] = f]

\* The innermost call moves on to frame f and calls g.
Call(f, g) == Append(Goto(f), g)

\* The innermost call returns.
Pop == SubSeq(stack, 1, Len(stack) - 1)

Throw_Partial(err, lx) ==
    /\ result' = [status |-> "err", expr |-> IF ret # <<>> THEN ret[1] ELSE Top.lhs,
                  err |-> err]
    /\ stack' = <<>>
    /\ ret' = <<>>
    /\ lexer' = lx
    /\ UNCHANGED input

\* An error leaves every active call through `?`, and Parser::parse returns it.
Throw(err, lx) ==
    /\ result' = [status |-> "err", expr |-> NoExpr, err |-> err]
    /\ stack' = <<>>
    /\ ret' = <<>>
    /\ lexer' = lx
    /\ UNCHANGED input

\* Parser::parse, up to its call of parse_expression(1)
Parse ==
    /\ Running /\ Top.fn = "parse" /\ Top.stage = "start"
    /\ steps' = steps + 1
    /\ UNCHANGED <<tokens, values, cli>>
    /\ stack' = Call([Top EXCEPT !.stage = "expr"], ExprFrame(1))
    /\ UNCHANGED <<input, lexer, ret, result>>

ParseEnd_NoCheck ==
    /\ Running /\ Top.fn = "parse" /\ Top.stage = "expr" /\ ret # <<>>
    /\ steps' = steps + 1
    /\ UNCHANGED <<tokens, values, cli>>
    /\ result' = [status |-> "ok", expr |-> ret[1], err |-> NoError]
    /\ stack' = <<>>
    /\ ret' = <<>>
    /\ UNCHANGED <<input, lexer>>

\* Parser::parse, from the return of parse_expression(1)
ParseEnd ==
    /\ Running /\ Top.fn = "parse" /\ Top.stage = "expr" /\ ret # <<>>
    /\ steps' = steps + 1
    /\ UNCHANGED <<tokens, values, cli>>
    /\ LET p == ParserPeek(input, lexer)
       IN  IF ~p.ok THEN Throw(p.err, p.lx)
           ELSE IF p.some
           THEN Throw(Error("Unexpected token {}", TokenDisplay(p.tok), <<>>), p.lx)
           ELSE /\ result' = [status |-> "ok", expr |-> ret[1], err |-> NoError]
                /\ stack' = <<>>
                /\ ret' = <<>>
                /\ lexer' = p.lx
                /\ UNCHANGED input

\* Parser::parse_expression, its first statement up to the call of
\* parse_expression for a prefix operator's operand or of parse_atom
ParseExpression ==
    /\ Running /\ Top.fn = "expr" /\ Top.stage = "start"
    /\ steps' = steps + 1
    /\ UNCHANGED <<tokens, values, cli>>
    /\ LET r == NextIfPrefix(input, lexer)
       IN  /\ lexer' = r.lx
           /\ stack' =
                IF r.op # ""
                THEN Call([Top EXCEPT !.stage = "prefix", !.op = r.op],
                          ExprFrame(PrefixPrecedence(r.op) + PrefixAssociativity(r.op)))
                ELSE Call([Top EXCEPT !.stage = "atom"], AtomFrame)
    /\ UNCHANGED <<input, ret, result>>

\* Parser::parse_expression: lhs is bound from the operand or the atom
ParseExpressionLhs ==
    /\ Running /\ Top.fn = "expr" /\ Top.stage \in {"prefix", "atom"} /\ ret # <<>>
    /\ steps' = steps + 1
    /\ UNCHANGED <<tokens, values, cli>>
    /\ stack' = Goto([Top EXCEPT !.stage = "postfix", !.op = "",
                                 !.lhs = IF Top.stage = "prefix"
                                         THEN PrefixBuild(Top.op, ret[1])
                                         ELSE ret[1]])
    /\ ret' = <<>>
    /\ UNCHANGED <<input, lexer, result>>

\* Parser::parse_expression: one test of the postfix loop, and its body
ParseExpressionPostfix ==
    /\ Running /\ Top.fn = "expr" /\ Top.stage = "postfix"
    /\ steps' = steps + 1
    /\ UNCHANGED <<tokens, values, cli>>
    /\ LET r == NextIfPostfix(input, lexer, Top.min_prec)
       IN  /\ lexer' = r.lx
           /\ stack' =
                IF r.op # ""
                THEN Goto([Top EXCEPT !.lhs = PostfixBuild(r.op, Top.lhs)])
                ELSE Goto([Top EXCEPT !.stage = "infix"])
    /\ UNCHANGED <<input, ret, result>>

\* Parser::parse_expression: one test of the infix loop, up to the call of
\* parse_expression for the right-hand side, or the return of lhs
ParseExpressionInfix ==
    /\ Running /\ Top.fn = "expr" /\ Top.stage = "infix"
    /\ steps' = steps + 1
    /\ UNCHANGED <<tokens, values, cli>>
    /\ LET r == NextIfInfix(input, lexer, Top.min_prec)
       IN  /\ lexer' = r.lx
           /\ IF r.op # ""
              THEN /\ stack' = Call([Top EXCEPT !.stage = "rhs", !.op = r.op],
                                    ExprFrame(InfixPrecedence(r.op) + InfixAssociativity(r.op)))
                   /\ ret' = ret
              ELSE /\ stack' = Pop
                   /\ ret' = <<Top.lhs>>
    /\ UNCHANGED <<input, result>>

\* Parser::parse_expression: the body of the infix loop, from the return of
\* the right-hand side
ParseExpressionRhs ==
    /\ Running /\ Top.fn = "expr" /\ Top.stage = "rhs" /\ ret # <<>>
    /\ steps' = steps + 1
    /\ UNCHANGED <<tokens, values, cli>>
    /\ stack' = Goto([Top EXCEPT !.stage = "infix", !.op = "",
                                 !.lhs = InfixBuild(Top.op, Top.lhs, ret[1])])
    /\ ret' = <<>>
    /\ UNCHANGED <<input, lexer, result>>

\* Return Ok(expr) or Err(err) of a builder from the innermost call.
Return(r, lx) ==
    IF r.ok
    THEN /\ stack' = Pop
         /\ ret' = <<r.expr>>
         /\ lexer' = lx
         /\ UNCHANGED <<input, result>>
    ELSE Throw(r.err, lx)

\* Parser::parse_atom, from its start: to its return for a constant or a
\* number, to the argument loop for a function call, to the call of
\* parse_expression(1) for a parenthesis
ParseAtom ==
    /\ Running /\ Top.fn = "atom" /\ Top.stage = "start"
    /\ steps' = steps + 1
    /\ UNCHANGED <<tokens, values, cli>>
    /\ LET n == ParserNext(input, lexer)
           open == NextIf(input, n.lx, "OpenParen")
       IN  IF ~n.ok THEN Throw(n.err, n.lx)
           ELSE IF n.tok.kind = "Ident"
           THEN IF open.some
                THEN /\ stack' = Goto([Top EXCEPT !.stage = "args", !.name = n.tok.text])
                     /\ lexer' = open.lx
                     /\ UNCHANGED <<input, ret, result>>
                ELSE Return(BuildConstant(n.tok.text), open.lx)
           ELSE IF n.tok.kind = "Number"
           THEN Return(BuildNumber(n.tok.text), n.lx)
           ELSE IF n.tok.kind = "OpenParen"
           THEN /\ stack' = Call([Top EXCEPT !.stage = "paren"], ExprFrame(1))
                /\ lexer' = n.lx
                /\ UNCHANGED <<input, ret, result>>
           ELSE Throw(Error("Unexpected token {}", TokenDisplay(n.tok), <<>>), n.lx)

ParseAtomArgs_EndCloses ==
    /\ Running /\ Top.fn = "atom" /\ Top.stage = "args"
    /\ steps' = steps + 1
    /\ UNCHANGED <<tokens, values, cli>>
    /\ LET close == NextIf(input, lexer, "CloseParen")
           t == ParserNext(input, close.lx)
       IN  IF close.some \/ (Top.args # <<>> /\ ~t.ok)
           THEN Return(BuildFunction(Top.name, Top.args), close.lx)
           ELSE IF Top.args # <<>> /\ t.tok.kind # "Comma"
           THEN Throw(Error("Unexpected token {}", TokenDisplay(t.tok), <<>>), t.lx)
           ELSE /\ stack' = Call([Top EXCEPT !.stage = "arg"], ExprFrame(1))
                /\ lexer' = IF Top.args # <<>> THEN t.lx ELSE close.lx
                /\ UNCHANGED <<input, ret, result>>

\* Parser::parse_atom: one test of the argument loop, up to the call of
\* parse_expression(1) for the next argument, or the return of the function
ParseAtomArgs ==
    /\ Running /\ Top.fn = "atom" /\ Top.stage = "args"
    /\ steps' = steps + 1
    /\ UNCHANGED <<tokens, values, cli>>
    /\ LET close == NextIf(input, lexer, "CloseParen")
           t == ParserNext(input, close.lx)
       IN  IF close.some THEN Return(BuildFunction(Top.name, Top.args), close.lx)
           ELSE IF Top.args # <<>> /\ ~t.ok THEN Throw(t.err, t.lx)
           ELSE IF Top.args # <<>> /\ t.tok.kind # "Comma"
           THEN Throw(Error("Unexpected token {}", TokenDisplay(t.tok), <<>>), t.lx)
           ELSE /\ stack' = Call([Top EXCEPT !.stage = "arg"], ExprFrame(1))
                /\ lexer' = IF Top.args # <<>> THEN t.lx ELSE close.lx
                /\ UNCHANGED <<input, ret, result>>

\* Parser::parse_atom: args.push of the argument that was parsed
ParseAtomArg ==
    /\ Running /\ Top.fn = "atom" /\ Top.stage = "arg" /\ ret # <<>>
    /\ steps' = steps + 1
    /\ UNCHANGED <<tokens, values, cli>>
    /\ stack' = Goto([Top EXCEPT !.stage = "args", !.args = Append(Top.args, ret[1])])
    /\ ret' = <<>>
    /\ UNCHANGED <<input, lexer, result>>

\* Parser::parse_atom: after the expression in parentheses
ParseAtomParen ==
    /\ Running /\ Top.fn = "atom" /\ Top.stage = "paren" /\ ret # <<>>
    /\ steps' = steps + 1
    /\ UNCHANGED <<tokens, values, cli>>
    /\ LET close == NextIf(input, lexer, "CloseParen")
       IN  IF ~close.some
           THEN Throw(Error("Closing ) not found", <<>>, <<>>), close.lx)
           ELSE /\ stack' = Pop
                /\ lexer' = close.lx
                /\ UNCHANGED <<input, ret, result>>

(***************************************************************************)
(* The inputs                                                              *)
(***************************************************************************)
MaxPrefix == 1      \* prefix operators before an operand
MaxBang == 1        \* '!' after an operand
MaxToks == 3        \* lexemes of a free-form input
MaxArgs == 3        \* arguments of a function call

\* The strings of a sequence, one after the other.
RECURSIVE Cat(_)
Cat(ss) == IF ss = <<>> THEN <<>> ELSE Head(ss) \o Cat(Tail(ss))

\* The strings of a sequence with sep between them.
RECURSIVE Join(_, _)
Join(ss, sep) ==
    IF ss = <<>> THEN <<>>
    ELSE IF Len(ss) = 1 THEN Head(ss)
    ELSE Head(ss) \o sep \o Join(Tail(ss), sep)

SeqsUpTo(S, n) == UNION {[1..k -> S] : k \in 0..n}

Space == Str(<<" ">>)
Bang == Str(<<"!">>)
Caret == Str(<<"^">>)
Minus == Str(<<"-">>)
Open == Str(<<"(">>)
Close == Str(<<")">>)
Comma == Str(<<",">>)
Two == Str(<<"2">>)
Three == Str(<<"3">>)
Four == Str(<<"4">>)
Pi == Str(<<"p", "i">>)
Sqrt == Str(<<"s", "q", "r", "t">>)

PrefixOps == {Str(<<"+">>), Minus, Str(<<"SQRT">>)}
AddOps == {Str(<<"+">>), Minus}
MulOps == {Str(<<"*">>), Str(<<"/">>), Str(<<"%">>)}
InfixOps == AddOps \cup MulOps \cup {Caret}

FunctionNames ==
    {Sqrt, Str(<<"s", "i", "n">>), Str(<<"c", "o", "s">>), Str(<<"t", "a", "n">>),
     Str(<<"d", "e", "g", "r", "e", "e", "s">>), Str(<<"r", "a", "d", "i", "a", "n", "s">>),
     Str(<<"r", "o", "u", "n", "d">>)}
ConstantNames ==
    {Str(<<"e">>), Pi, Str(<<"i", "n", "f">>), Str(<<"n", "a", "n">>)}
OtherNames ==
    {Str(<<"x">>), Str(<<"PI">>), Str(<<"CAPITAL_PI">>), Str(<<"I_DIAERESIS">>),
     Str(<<"P", "I">>), Str(<<"P", "i">>), Str(<<"E">>), Str(<<"N", "a", "N">>),
     Str(<<"S", "Q", "R", "T">>), Str(<<"S", "i", "n">>), Str(<<"s", "q", "r", "t", "2">>),
     Str(<<"p", "i", "_">>)}
Names == FunctionNames \cup ConstantNames \cup OtherNames

\* The operands of the operator inputs.
Atoms == {Two, Three, Pi}

\* a op1 b op2 c
ChainInputs ==
    {Cat(<<a, o1, b, o2, c>>) : a \in Atoms, b \in Atoms, c \in Atoms,
                                o1 \in InfixOps, o2 \in InfixOps}

Prefixes == {Cat(ps) : ps \in SeqsUpTo(PrefixOps, MaxPrefix)}
Bangs == {Cat(bs) : bs \in SeqsUpTo({Bang}, MaxBang)}

\* An operand with prefix operators before it and '!' after it.
Operands(atoms) == {Cat(<<p, a, q>>) : p \in Prefixes, a \in atoms, q \in Bangs}

\* One such operand, or two of them around an infix operator.
OperandInputs ==
    Operands({Two, Pi})
    \cup {Cat(<<x, o, y>>) : x \in Operands({Two, Pi}), o \in InfixOps, y \in Operands({Three})}

\* Up to MaxToks lexemes with a space between them.
Lexemes ==
    {Two, Pi, Str(<<"x">>), Sqrt, Str(<<"+">>), Str(<<"*">>), Caret, Str(<<"SQRT">>),
     Bang, Open, Close, Comma, Str(<<"$">>)}

FreeInputs == {Join(ls, Space) : ls \in SeqsUpTo(Lexemes, MaxToks)}

\* name(arg, ..., arg) with up to MaxArgs arguments
CallInput(n, as) == Cat(<<n, Open, Join(as, Comma), Close>>)

ArgLists == SeqsUpTo({Two, Three}, MaxArgs)

CallInputs == {CallInput(n, as) : n \in Names, as \in ArgLists}

\* A name by itself, as an operand, or before another token
NameInputs ==
    Names
    \cup {Cat(<<n, Space, Two>>) : n \in Names}
    \cup {Cat(<<Two, Str(<<"+">>), n>>) : n \in Names}

\* Expressions that are complete by themselves.
CompleteInputs ==
    {Two, Pi, Cat(<<Two, Str(<<"+">>), Three>>), Cat(<<Two, Caret, Three>>),
     Cat(<<Two, Bang>>), Cat(<<Minus, Two>>), Cat(<<Open, Two, Close>>),
     Cat(<<Sqrt, Open, Two, Close>>), Cat(<<Two, Space, Str(<<"+">>), Space, Two>>)}

\* The tokens that continue no complete expression ('(' continues a name).
Trailers == {Two, Pi, Str(<<"x">>), Str(<<"SQRT">>), Close, Comma}

\* A complete expression and one more token, after a space or directly
\* ("2pi" is the number 2 and the name pi, "2,2" has a comma).
TrailingInputs ==
    {Cat(<<e, Space, t>>) : e \in CompleteInputs, t \in Trailers}
    \cup {Cat(<<e, Space, Open>>) : e \in CompleteInputs \ {Pi}}
    \cup {Cat(<<Two, t>>) : t \in {Pi, Str(<<"x">>), Str(<<"SQRT">>), Close, Comma, Open}}
    \cup {Cat(<<Two, Comma, Two>>)}

\* The square root of an operand x, with the glyph and as a call of sqrt
SqrtGlyph(x) == Cat(<<Str(<<"SQRT">>), x>>)
SqrtCall(x) == Cat(<<Sqrt, Open, x, Close>>)

\* An expression f by itself, before '!', and on either side of an infix
\* operator
Contexts(f) ==
    {f, Cat(<<f, Bang>>)}
    \cup {Cat(<<f, o, Three>>) : o \in InfixOps}
    \cup {Cat(<<Two, o, f>>) : o \in InfixOps}

\* Both square roots of the atoms with prefix operators before them, in these
\* contexts
SqrtInputs ==
    UNION {Contexts(SqrtGlyph(Cat(<<p, a>>))) \cup Contexts(SqrtCall(Cat(<<p, a>>))) :
              p \in Prefixes, a \in Atoms}

\* What stands for an argument list and is none: a comma first, a comma last,
\* two arguments without a comma, and the lists that the input ends
BrokenLists ==
    {Cat(<<Open, Comma, Close>>), Cat(<<Open, Two, Comma, Close>>),
     Cat(<<Open, Two, Space, Three, Close>>), Cat(<<Open, Two, Comma, Comma, Three, Close>>),
     Open, Cat(<<Open, Two>>), Cat(<<Open, Two, Comma>>), Cat(<<Open, Two, Comma, Three>>)}

\* A name and the empty list, a name and a broken list
ArgListInputs ==
    {Cat(<<n, Open, Close>>) : n \in Names}
    \cup {Cat(<<n, b>>) : n \in Names, b \in BrokenLists}

\* The complete operands a '!' can follow: a number, a constant, a function
\* call, a group and an operand with its '!'.
CompleteOperands ==
    {Two, Pi, SqrtCall(Four), Cat(<<Open, Two, Close>>), Cat(<<Two, Bang>>)}

\* The prefix operators before such an operand: none, one, two.
FewPrefixes == {<<>>} \cup PrefixOps \cup {Cat(<<Minus, Str(<<"SQRT">>)>>)}

\* p e and a '!' after it, directly or after a space
BangAfter(p, e, sp) == Cat(<<p, e, sp, Bang>>)

BangsAfter ==
    {BangAfter(p, e, sp) : p \in FewPrefixes, e \in CompleteOperands, sp \in {<<>>, Space}}

\* Such an operand by itself, on either side of an infix operator, in a group
\* and as the argument of a function.
AfterOperandInputs ==
    BangsAfter
    \cup {Cat(<<Three, o, x>>) : o \in InfixOps, x \in BangsAfter}
    \cup {Cat(<<x, o, Three>>) : o \in InfixOps, x \in BangsAfter}
    \cup {Cat(<<Open, x, Close>>) : x \in BangsAfter}
    \cup {SqrtCall(x) : x \in BangsAfter}

\* Spaces and tabs only.
WhitespaceInputs == SeqsUpTo({Ord[" "], Ord["TAB"]}, MaxToks)

\* Inputs that end where an operand is due: nothing but whitespace, nothing
\* but prefix operators, an operand and an infix operator (and prefix
\* operators).
DanglingInputs ==
    WhitespaceInputs
    \cup {Cat(ps) : ps \in SeqsUpTo(PrefixOps, MaxToks)}
    \cup {Cat(<<a, sp, o, sp, p>>) : a \in {Two, Pi}, sp \in {<<>>, Space}, o \in InfixOps,
                                     p \in Prefixes}

\* The tokens that neither continue a complete expression nor close a group.
NotClosers == Trailers \ {Close}

\* '(' and a complete expression, and then nothing or a token that is not ')'.
UnclosedInputs ==
    {Cat(<<Open, e>>) : e \in CompleteInputs}
    \cup {Cat(<<Open, e, Space, t>>) : e \in CompleteInputs, t \in NotClosers}

\* What an operand is due after: the start of the input, an infix or a prefix
\* operator, '(' and the ',' of an argument list.
Leads ==
    {<<>>, Cat(<<Two, Space, Str(<<"*">>), Space>>), Cat(<<Two, Str(<<"+">>)>>), Minus,
     Open, Cat(<<Sqrt, Open, Two, Comma>>)}

\* The tokens that start no operand.
NotOperands == MulOps \cup {Caret, Bang, Comma, Close}

\* Such a token where an operand is due, with nothing or an operand after it.
OperandDueInputs ==
    {Cat(<<l, t, r>>) : l \in Leads, t \in NotOperands, r \in {<<>>, Cat(<<Space, Two>>)}}

Inputs ==
    ChainInputs \cup OperandInputs \cup FreeInputs \cup CallInputs \cup NameInputs
    \cup TrailingInputs \cup DanglingInputs \cup UnclosedInputs \cup OperandDueInputs
    \cup SqrtInputs \cup ArgListInputs \cup AfterOperandInputs

(***************************************************************************)
(* The specification                                                       *)
(***************************************************************************)
\* Parser::new(input), before Parser::parse is called
Init ==
    /\ input \in Inputs
    /\ lexer = Lx(1, <<>>)
    /\ stack = <<ParseFrame>>
    /\ ret = <<>>
    /\ result = [status |-> "none", expr |-> NoExpr, err |-> NoError]
    /\ tokens = <<>>
    /\ values = <<>>
    /\ steps = 0
    /\ cli = NoCli

Next ==
    \/ Parse
    \/ ParseEnd
    \/ ParseExpression
    \/ ParseExpressionLhs
    \/ ParseExpressionPostfix
    \/ ParseExpressionInfix
    \/ ParseExpressionRhs
    \/ ParseAtom
    \/ ParseAtomArgs
    \/ ParseAtomArg
    \/ ParseAtomParen

Spec == Init /\ [][Next]_vars

(***************************************************************************)
(* f64                                                                     *)
(***************************************************************************)
RECURSIVE Power(_, _)
Power(x, n) == IF n = 0 THEN 1 ELSE x * Power(x, n - 1)

RECURSIVE Product(_)
Product(n) == IF n = 0 THEN 1 ELSE n * Product(n - 1)

\* An f64: NaN (k = "nan"), an infinity with the sign s (k = "inf"), or a
\* finite number (k = "fin").  A finite number is s * n * 2^e with n odd or 0
\* (f = ""), which is how f64 holds it; a finite result that has no such form
\* within the integers of the model is kept as what f64 rounds: s * f(x), with
\* f the operation and x its integer arguments.
F64(k, s, n, e, f, x) == [k |-> k, s |-> s, n |-> n, e |-> e, f |-> f, x |-> x]

\* f64::MAX_EXP: every finite f64 is below 2^1024
MAX_EXP == 1024
\* the exponent of the least positive f64, 2^-1074
MIN_EXP == 0 - 1074

\* f64::NAN, f64::INFINITY and f64::NEG_INFINITY, 0.0 and -0.0
NaN == F64("nan", 1, 0, 0, "", <<>>)
Infinite(s) == F64("inf", s, 0, 0, "", <<>>)
Zero(s) == F64("fin", s, 0, 0, "", <<>>)

\* The finite f64 that is s times the rounded value of f(x)
Rounded(s, f, x) == F64("fin", s, 0, 0, f, x)

IsNaN(v) == v.k = "nan"
IsInfinite(v) == v.k = "inf"
IsExact(v) == v.k = "fin" /\ v.f = ""
IsZero(v) == IsExact(v) /\ v.n = 0

Abs(i) == IF i < 0 THEN 0 - i ELSE i
Sgn(i) == IF i < 0 THEN 0 - 1 ELSE 1
Min(i, j) == IF i < j THEN i ELSE j

\* The integers the model multiplies stay below 2^30.
IntLimit == Power(2, 30)
Fits(a, b) == b = 0 \/ a <= IntLimit \div b
ShiftFits(n, k) == k <= 30 /\ Fits(n, Power(2, k))

\* The number of binary digits of n, and of its trailing zeros (n > 0)
RECURSIVE Bits(_)
Bits(n) == IF n = 0 THEN 0 ELSE 1 + Bits(n \div 2)

RECURSIVE TrailingZeros(_)
TrailingZeros(n) == IF n % 2 = 1 THEN 0 ELSE 1 + TrailingZeros(n \div 2)

\* The f64 that s * n * 2^e rounds to, for n below 2^53: itself, or an
\* infinity from 2^1024 on, or a zero below 2^-1075.
Dyadic(s, n, e) ==
    IF n = 0 THEN Zero(s)
    ELSE LET z == TrailingZeros(n)
             m == n \div Power(2, z)
         IN  IF Bits(m) + e + z > MAX_EXP THEN Infinite(s)
             ELSE IF e + z >= MIN_EXP THEN F64("fin", s, m, e + z, "", <<>>)
             ELSE IF Bits(m) + e + z < MIN_EXP THEN Zero(s)
             ELSE Rounded(s, "subnormal", <<m, e + z>>)

\* |a| < |b| for finite a and b that are not zero
LessMagnitude(a, b) ==
    LET m == Min(a.e, b.e)
    IN  IF Bits(a.n) + a.e # Bits(b.n) + b.e
        THEN Bits(a.n) + a.e < Bits(b.n) + b.e
        ELSE a.n * Power(2, a.e - m) < b.n * Power(2, b.e - m)

\* The unary minus of f64
Neg(v) == IF IsNaN(v) THEN v ELSE [v EXCEPT !.s = 0 - v.s]

\* f64::MANTISSA_DIGITS: the binary digits an f64 keeps
MANTISSA_DIGITS == 53

\* Is |b| too small to move a in a + b?  a is in [2^(t-1), 2^t) for
\* t = Bits(a.n) + a.e, where the f64 are 2^(t-53) apart (2^(t-54) just below
\* a power of two); |b| is below 2^(Bits(b.n) + b.e).
Absorbs(a, b) ==
    Bits(b.n) + b.e <= Bits(a.n) + a.e - MANTISSA_DIGITS - (IF a.s = b.s THEN 1 ELSE 2)

\* a + b of two finite f64 that are not zero: the exact sum when the model
\* holds it, a or b when it absorbs the other.
AddExact(a, b) ==
    LET m == Min(a.e, b.e)
    IN  CASE ShiftFits(a.n, a.e - m) /\ ShiftFits(b.n, b.e - m) ->
                LET sum == a.s * a.n * Power(2, a.e - m) + b.s * b.n * Power(2, b.e - m)
                IN  IF sum = 0 THEN Zero(1) ELSE Dyadic(Sgn(sum), Abs(sum), m)
          [] ~(ShiftFits(a.n, a.e - m) /\ ShiftFits(b.n, b.e - m)) /\ Absorbs(a, b) -> a
          [] ~(ShiftFits(a.n, a.e - m) /\ ShiftFits(b.n, b.e - m)) /\ Absorbs(b, a) -> b

\* The + of f64
Add(a, b) ==
    CASE IsNaN(a) \/ IsNaN(b) -> NaN
      [] IsInfinite(a) /\ ~IsNaN(b) -> IF IsInfinite(b) /\ b.s # a.s THEN NaN ELSE a
      [] IsInfinite(b) /\ a.k = "fin" -> b
      [] IsZero(a) /\ IsZero(b) -> Zero(IF a.s < 0 /\ b.s < 0 THEN 0 - 1 ELSE 1)
      [] IsZero(a) /\ b.k = "fin" /\ ~IsZero(b) -> b
      [] IsZero(b) /\ a.k = "fin" /\ ~IsZero(a) -> a
      [] IsExact(a) /\ IsExact(b) /\ a.n # 0 /\ b.n # 0 -> AddExact(a, b)

\* The * of f64
Mul(a, b) ==
    CASE IsNaN(a) \/ IsNaN(b) -> NaN
      [] IsInfinite(a) /\ IsInfinite(b) -> Infinite(a.s * b.s)
      [] IsInfinite(a) /\ IsExact(b) -> IF b.n = 0 THEN NaN ELSE Infinite(a.s * b.s)
      [] IsExact(a) /\ IsInfinite(b) -> IF a.n = 0 THEN NaN ELSE Infinite(a.s * b.s)
      [] IsExact(a) /\ IsExact(b) /\ Fits(a.n, b.n) -> Dyadic(a.s * b.s, a.n * b.n, a.e + b.e)

\* The / of f64
Div(a, b) ==
    CASE IsNaN(a) \/ IsNaN(b) -> NaN
      [] IsInfinite(a) /\ IsInfinite(b) -> NaN
      [] IsInfinite(a) /\ IsExact(b) -> Infinite(a.s * b.s)
      [] IsExact(a) /\ IsInfinite(b) -> Zero(a.s * b.s)
      [] IsExact(a) /\ IsExact(b) ->
            IF b.n = 0 THEN (IF a.n = 0 THEN NaN ELSE Infinite(a.s * b.s))
            ELSE IF a.n % b.n = 0 THEN Dyadic(a.s * b.s, a.n \div b.n, a.e - b.e)
            ELSE Rounded(a.s * b.s, "div", <<a.n, a.e, b.n, b.e>>)

\* a % b of two finite f64 that are not zero, |a| >= |b|: it is exact
RemExact(a, b) ==
    LET m == Min(a.e, b.e)
    IN  CASE ShiftFits(a.n, a.e - m) /\ ShiftFits(b.n, b.e - m) ->
                LET r == (a.n * Power(2, a.e - m)) % (b.n * Power(2, b.e - m))
                IN  IF r = 0 THEN Zero(a.s) ELSE Dyadic(a.s, r, m)

\* The % of f64 (the remainder of the truncated division, with the sign of a)
Rem(a, b) ==
    CASE IsNaN(a) \/ IsNaN(b) -> NaN
      [] IsInfinite(a) /\ ~IsNaN(b) -> NaN
      [] IsExact(a) /\ IsInfinite(b) -> a
      [] IsExact(a) /\ IsExact(b) ->
            IF b.n = 0 THEN NaN
            ELSE IF a.n = 0 \/ LessMagnitude(a, b) THEN a
            ELSE RemExact(a, b)

\* Is the finite v a whole number (f64::fract is 0), an odd whole number?
IsIntegral(v) == v.n = 0 \/ v.e >= 0
IsOddIntegral(v) == v.n # 0 /\ v.e = 0

\* a^k for a finite a that is not zero and a whole k that is not zero.  With
\* t = Bits(a.n) + a.e, |a|^k is between 2^((t-1)k) and 2^(tk).
PowInteger(a, k) ==
    LET s == IF k % 2 = 0 THEN 1 ELSE a.s
        t == Bits(a.n) + a.e
    IN  IF a.n = 1 THEN Dyadic(s, 1, a.e * k)
        ELSE IF k > 0 /\ Bits(a.n) * k <= 30 THEN Dyadic(s, Power(a.n, k), a.e * k)
        ELSE IF (IF k > 0 THEN (t - 1) * k ELSE t * k) >= MAX_EXP THEN Infinite(s)
        ELSE IF (IF k > 0 THEN t * k ELSE (t - 1) * k) < MIN_EXP THEN Zero(s)
        ELSE Rounded(s, "powi", <<a.n, a.e, k>>)

\* f64::powf
Pow(a, b) ==
    CASE IsZero(b) -> Dyadic(1, 1, 0)
      [] ~IsZero(b) /\ a = Dyadic(1, 1, 0) -> a
      [] ~IsZero(b) /\ a # Dyadic(1, 1, 0) /\ (IsNaN(a) \/ IsNaN(b)) -> NaN
      [] IsInfinite(b) /\ IsInfinite(a) -> IF b.s > 0 THEN Infinite(1) ELSE Zero(1)
      [] IsInfinite(b) /\ IsExact(a) /\ a # Dyadic(1, 1, 0) ->
            IF a.n = 1 /\ a.e = 0 THEN Dyadic(1, 1, 0)
            ELSE IF (Bits(a.n) + a.e <= 0) = (b.s > 0) THEN Zero(1)
            ELSE Infinite(1)
      [] IsInfinite(a) /\ IsExact(b) /\ ~IsZero(b) ->
            IF b.s > 0 THEN Infinite(IF IsOddIntegral(b) THEN a.s ELSE 1)
            ELSE Zero(IF IsOddIntegral(b) THEN a.s ELSE 1)
      [] IsZero(a) /\ IsExact(b) /\ ~IsZero(b) ->
            IF b.s > 0 THEN Zero(IF IsOddIntegral(b) THEN a.s ELSE 1)
            ELSE Infinite(IF IsOddIntegral(b) THEN a.s ELSE 1)
      [] IsExact(a) /\ a.n # 0 /\ a # Dyadic(1, 1, 0) /\ IsExact(b) /\ ~IsZero(b)
         /\ Bits(b.n) + b.e <= 20 ->
            IF ~IsIntegral(b)
            THEN IF a.s < 0 THEN NaN
                 ELSE Rounded(1, "powf", <<a.n, a.e, b.s, b.n, b.e>>)
            ELSE PowInteger(a, b.s * b.n * Power(2, b.e))

\* Is n the square of a whole number, and of which?
SquareRootOf(n) == CHOOSE r \in 0..Power(2, (Bits(n) + 1) \div 2) : r * r = n
IsSquare(n) == \E r \in 0..Power(2, (Bits(n) + 1) \div 2) : r * r = n

\* f64::sqrt
Sqrt64(v) ==
    CASE IsNaN(v) -> NaN
      [] IsInfinite(v) -> IF v.s > 0 THEN v ELSE NaN
      [] IsZero(v) -> v
      [] IsExact(v) /\ v.n # 0 ->
            IF v.s < 0 THEN NaN
            ELSE IF v.e % 2 = 0 /\ IsSquare(v.n) THEN Dyadic(1, SquareRootOf(v.n), v.e \div 2)
            ELSE Rounded(1, "sqrt", <<v.n, v.e>>)

\* f64::sin and f64::tan (f is "sin" or "tan"), f64::to_degrees and
\* f64::to_radians (f is "to_degrees" or "to_radians")
OddFunction(f, v) ==
    CASE IsNaN(v) -> NaN
      [] IsInfinite(v) -> IF f \in {"sin", "tan"} THEN NaN ELSE v
      [] IsZero(v) -> v
      [] IsExact(v) /\ v.n # 0 -> Rounded(v.s, f, <<v.n, v.e>>)

\* f64::cos
Cos64(v) ==
    CASE IsNaN(v) \/ IsInfinite(v) -> NaN
      [] IsZero(v) -> Dyadic(1, 1, 0)
      [] IsExact(v) /\ v.n # 0 -> Rounded(1, "cos", <<v.n, v.e>>)

Round64_Truncate(v) ==
    CASE IsNaN(v) \/ IsInfinite(v) -> v
      [] IsExact(v) ->
            IF IsIntegral(v) THEN v
            ELSE IF 0 - v.e > 30 THEN Zero(v.s)
            ELSE Dyadic(v.s, v.n \div Power(2, 0 - v.e), 0)

\* f64::round: to the nearest whole number, halves away from zero
Round64(v) ==
    CASE IsNaN(v) \/ IsInfinite(v) -> v
      [] IsExact(v) ->
            IF IsIntegral(v) THEN v
            ELSE IF 0 - v.e > 30 THEN Zero(v.s)
            ELSE Dyadic(v.s, (v.n + Power(2, 0 - v.e - 1)) \div Power(2, 0 - v.e), 0)

FactorialOf_FromOne(n) ==
    CASE n = Infinite(1) -> n
      [] IsNaN(n) \/ n = Infinite(0 - 1) -> NaN
      [] IsExact(n) ->
            IF n.s < 0 \/ n.n = 0 \/ ~IsIntegral(n) THEN NaN
            ELSE IF n.e > 7 \/ n.n * Power(2, n.e) > 170 THEN Infinite(1)
            ELSE IF n.n * Power(2, n.e) <= 12 THEN Dyadic(1, Product(n.n * Power(2, n.e)), 0)
            ELSE Rounded(1, "factorial", <<n.n, n.e>>)

FactorialOf_Failing(n) ==
    IF n = Infinite(1) THEN n
    ELSE IF IsExact(n) /\ (n.s > 0 \/ n.n = 0) /\ IsIntegral(n) /\ n.e <= 2
            /\ n.n * Power(2, n.e) <= 12
    THEN Dyadic(1, Product(n.n * Power(2, n.e)), 0)
    ELSE F64("err", 1, 0, 0, "factorial of a negative or fractional number", <<>>)

\* The arm of Expression::evaluate for Factorial, on the value of its operand
FactorialOf(n) ==
    CASE n = Infinite(1) -> n
      [] IsNaN(n) \/ n = Infinite(0 - 1) -> NaN
      [] IsExact(n) ->
            IF (n.s < 0 /\ n.n # 0) \/ ~IsIntegral(n) THEN NaN
            ELSE IF n.e > 7 \/ n.n * Power(2, n.e) > 170 THEN Infinite(1)
            ELSE IF n.n * Power(2, n.e) <= 12 THEN Dyadic(1, Product(n.n * Power(2, n.e)), 0)
            ELSE Rounded(1, "factorial", <<n.n, n.e>>)

\* The arm of Expression::evaluate for Modulo, on the values of its operands
ModuloOf(l, r) == Rem(Add(Rem(l, r), r), r)

\* The arm of Expression::evaluate for Round, on the values of its operands
RoundOf(n, d) ==
    CASE IsNaN(d) \/ IsInfinite(d) -> NaN
      [] IsExact(d) ->
            IF (d.s < 0 /\ d.n # 0) \/ ~IsIntegral(d) THEN NaN
            ELSE Div(Round64(Mul(Pow(Dyadic(1, 10, 0), d), n)), Pow(Dyadic(1, 10, 0), d))

\* From<&Constant> for f64
ConstantValue(c) ==
    CASE c = "E" -> Rounded(1, "e", <<>>)
      [] c = "Infinity" -> Infinite(1)
      [] c = "NaN" -> NaN
      [] c = "Pi" -> Rounded(1, "pi", <<>>)

\* The f64 of a Number node, which has the decimal value m * 10^e: with
\* 10^e = 5^e * 2^e it is a whole number times a power of two, or is rounded.
NumberValue(val) ==
    LET m == Abs(val[1])
        e == val[2]
    IN  IF e >= 0
        THEN IF e <= 9 /\ Fits(m, Power(10, e)) THEN Dyadic(Sgn(val[1]), m * Power(10, e), 0)
             ELSE Rounded(Sgn(val[1]), "number", <<m, e>>)
        ELSE IF 0 - e <= 12 /\ m % Power(5, 0 - e) = 0
             THEN Dyadic(Sgn(val[1]), m \div Power(5, 0 - e), e)
             ELSE Rounded(Sgn(val[1]), "number", <<m, e>>)

(***************************************************************************)
(* Evaluation                                                              *)
(***************************************************************************)
\* Expression::evaluate
RECURSIVE Evaluate(_)
Evaluate(expr) ==
    CASE expr.node = "Add" -> Add(Evaluate(expr.kids[1]), Evaluate(expr.kids[2]))
      [] expr.node = "Constant" -> ConstantValue(expr.name)
      [] expr.node = "Cosine" -> Cos64(Evaluate(expr.kids[1]))
      [] expr.node = "Degrees" -> OddFunction("to_degrees", Evaluate(expr.kids[1]))
      [] expr.node = "Divide" -> Div(Evaluate(expr.kids[1]), Evaluate(expr.kids[2]))
      [] expr.node = "Exponentiate" -> Pow(Evaluate(expr.kids[1]), Evaluate(expr.kids[2]))
      [] expr.node = "Factorial" -> FactorialOf(Evaluate(expr.kids[1]))
      [] expr.node = "Modulo" -> ModuloOf(Evaluate(expr.kids[1]), Evaluate(expr.kids[2]))
      [] expr.node = "Multiply" -> Mul(Evaluate(expr.kids[1]), Evaluate(expr.kids[2]))
      [] expr.node = "Negate" -> Neg(Evaluate(expr.kids[1]))
      [] expr.node = "Number" -> NumberValue(expr.num)
      [] expr.node = "Radians" -> OddFunction("to_radians", Evaluate(expr.kids[1]))
      [] expr.node = "Round" -> RoundOf(Evaluate(expr.kids[1]), Evaluate(expr.kids[2]))
      [] expr.node = "Sine" -> OddFunction("sin", Evaluate(expr.kids[1]))
      [] expr.node = "SquareRoot" -> Sqrt64(Evaluate(expr.kids[1]))
      [] expr.node = "Subtract" -> Add(Evaluate(expr.kids[1]), Neg(Evaluate(expr.kids[2])))
      [] expr.node = "Tangent" -> OddFunction("tan", Evaluate(expr.kids[1]))

(***************************************************************************)
(* What the inputs mean                                                    *)
(***************************************************************************)
Done == result.status # "none"

Ok(expr) == result = [status |-> "ok", expr |-> expr, err |-> NoError]

Err(msg, arg) ==
    result = [status |-> "err", expr |-> NoExpr, err |-> Error(msg, arg, <<>>)]

\* The expression an operand of the operator inputs stands for.
Leaf(a) ==
    CASE a = Two -> Number(<<2, 0>>)
      [] a = Three -> Number(<<3, 0>>)
      [] a = Four -> Number(<<4, 0>>)
      [] a = Pi -> Constant("Pi")

\* The Expression variant an infix operator stands for, and its level in the
\* precedence table.
OpNode(o) ==
    CASE o = Str(<<"+">>) -> "Add"
      [] o = Str(<<"-">>) -> "Subtract"
      [] o = Str(<<"*">>) -> "Multiply"
      [] o = Str(<<"/">>) -> "Divide"
      [] o = Str(<<"%">>) -> "Modulo"
      [] o = Str(<<"^">>) -> "Exponentiate"

Level(o) == IF o \in AddOps THEN 1 ELSE IF o \in MulOps THEN 2 ELSE 3

Bin(o, lhs, rhs) == Binary(OpNode(o), lhs, rhs)

\* Prefix operators applied to an expression, the last one first.
RECURSIVE WithPrefixes(_, _)
WithPrefixes(p, expr) ==
    IF p = <<>> THEN expr
    ELSE LET inner == WithPrefixes(Tail(p), expr)
         IN  IF Head(p) = Ord["-"] THEN Unary("Negate", inner)
             ELSE IF Head(p) = Ord["SQRT"] THEN Unary("SquareRoot", inner)
             ELSE inner

\* As many factorials as q has characters.
RECURSIVE WithBangs(_, _)
WithBangs(q, expr) ==
    IF q = <<>> THEN expr ELSE Unary("Factorial", WithBangs(Tail(q), expr))

\* The operand p a q: the prefix operators bind first, then the factorials.
OperandTree(p, a, q) == WithBangs(q, WithPrefixes(p, Leaf(a)))

(***************************************************************************)
(* Associativity and precedence                                            *)
(***************************************************************************)
\* C1: exponentiation is right-associative: for operands a, b, c the input
\* "a^b^c" parses to Exponentiate(a, Exponentiate(b, c)), and "2^3^2"
\* evaluates to 512.
C1_ExponentRightAssociative ==
    (Done /\ input \in ChainInputs) =>
        /\ \A a \in Atoms, b \in Atoms, c \in Atoms :
              input = Cat(<<a, Caret, b, Caret, c>>) =>
                  Ok(Bin(Caret, Leaf(a), Bin(Caret, Leaf(b), Leaf(c))))
        /\ input = Cat(<<Two, Caret, Three, Caret, Two>>) =>
              result.status = "ok" /\ Evaluate(result.expr) = Dyadic(1, 512, 0)

C1_Witness ==
    /\ input = Cat(<<Two, Caret, Three, Caret, Two>>)
    /\ Ok(Bin(Caret, Leaf(Two), Bin(Caret, Leaf(Three), Leaf(Two))))

\* C2: two infix operators of the same precedence other than ^ associate to
\* the left: for op1, op2 both of + - or both of * / %, the input
\* "a op1 b op2 c" parses to op2(op1(a, b), c).
C2_EqualPrecedenceLeftAssociative ==
    (Done /\ input \in ChainInputs) =>
        \A a \in Atoms, b \in Atoms, c \in Atoms, o1 \in AddOps \cup MulOps,
           o2 \in AddOps \cup MulOps :
            (Level(o1) = Level(o2) /\ input = Cat(<<a, o1, b, o2, c>>)) =>
                Ok(Bin(o2, Bin(o1, Leaf(a), Leaf(b)), Leaf(c)))

C2_Witness ==
    /\ input = Cat(<<Three, Str(<<"%">>), Two, Str(<<"/">>), Two>>)
    /\ Ok(Binary("Divide", Binary("Modulo", Leaf(Three), Leaf(Two)), Leaf(Two)))

\* C3: the precedence levels are respected in both orders: for infix
\* operators lo and hi with level(lo) < level(hi), "a lo b hi c" parses to
\* lo(a, hi(b, c)) and "a hi b lo c" parses to lo(hi(a, b), c).
C3_PrecedenceLevels ==
    (Done /\ input \in ChainInputs) =>
        \A a \in Atoms, b \in Atoms, c \in Atoms, lo \in InfixOps, hi \in InfixOps :
            Level(lo) < Level(hi) =>
                /\ input = Cat(<<a, lo, b, hi, c>>) =>
                      Ok(Bin(lo, Leaf(a), Bin(hi, Leaf(b), Leaf(c))))
                /\ input = Cat(<<a, hi, b, lo, c>>) =>
                      Ok(Bin(lo, Bin(hi, Leaf(a), Leaf(b)), Leaf(c)))

C3_Witness ==
    /\ input = Cat(<<Two, Str(<<"*">>), Three, Caret, Two>>)
    /\ Ok(Binary("Multiply", Leaf(Two), Binary("Exponentiate", Leaf(Three), Leaf(Two))))

\* C4: the postfix ! binds tighter than every infix operator: the input
\* "x op y!", where y may have prefix operators and x is any operand, parses
\* to op(x, Factorial(y)), the factorial inside the right-hand side.
C4_FactorialBindsTighterThanInfix ==
    (Done /\ input \in OperandInputs) =>
        \A p \in Prefixes, a \in {Two, Pi}, q \in Bangs, o \in InfixOps,
           p2 \in Prefixes, q2 \in Bangs \ {<<>>} :
            input = Cat(<<p, a, q, o, p2, Three, q2>>) =>
                Ok(Bin(o, OperandTree(p, a, q), OperandTree(p2, Three, q2)))

C4_Witness ==
    /\ input = Cat(<<Two, Caret, Three, Bang>>)
    /\ Ok(Binary("Exponentiate", Leaf(Two), Unary("Factorial", Leaf(Three))))

\* C5: a prefix operator binds tighter than the postfix ! and than every
\* infix operator: "-a!" parses to Factorial(Negate(a)) and "-a op b" to
\* op(Negate(a), b), and so for every chain of prefix operators.
C5_PrefixBindsTightest ==
    (Done /\ input \in OperandInputs) =>
        \A p \in Prefixes \ {<<>>}, a \in {Two, Pi}, q \in Bangs :
            /\ input = Cat(<<p, a, q>>) => Ok(WithBangs(q, WithPrefixes(p, Leaf(a))))
            /\ \A o \in InfixOps :
                  input = Cat(<<p, a, q, o, Three>>) =>
                      Ok(Bin(o, WithBangs(q, WithPrefixes(p, Leaf(a))), Leaf(Three)))

C5_Witness ==
    /\ input = Cat(<<Minus, Two, Bang>>)
    /\ Ok(Unary("Factorial", Unary("Negate", Leaf(Two))))

(***************************************************************************)
(* Errors                                                                  *)
(***************************************************************************)
StartsWith(s, t) == Len(s) >= Len(t) /\ SubSeq(s, 1, Len(t)) = t

C7_UnexpectedEndOfInput ==
    (Done /\ input \in DanglingInputs) => Err("Unexpected end of input", <<>>)

C7_Witness ==
    /\ input = Cat(<<Two, Space, Str(<<"*">>)>>)
    /\ Err("Unexpected end of input", <<>>)

\* The fewest and the most arguments of a function of the table.
MinArity(f) == 1
MaxArity(f) == IF f = Str(<<"r", "o", "u", "n", "d">>) THEN 2 ELSE 1

\* C8: the arity of a function is enforced with two errors: a call of a
\* function f of the table with fewer arguments than its minimum fails with
\* "Missing argument for f()", one with more than its maximum with
\* "Unexpected argument for f()".
C8_ArityErrors ==
    (Done /\ input \in CallInputs) =>
        \A f \in FunctionNames, as \in ArgLists :
            input = CallInput(f, as) =>
                /\ Len(as) < MinArity(f) => Err("Missing argument for {}()", f)
                /\ Len(as) > MaxArity(f) => Err("Unexpected argument for {}()", f)

\* The names that are in neither table, whatever their case (the greek pi
\* apart), and those that are not in the function table.
UnknownNames ==
    {Str(<<"x">>), Str(<<"I_DIAERESIS">>), Str(<<"s", "q", "r", "t", "2">>),
     Str(<<"p", "i", "_">>)}
NotConstantNames == UnknownNames \cup FunctionNames \cup {Str(<<"S", "Q", "R", "T">>), Str(<<"S", "i", "n">>)}
NotFunctionNames ==
    UnknownNames \cup ConstantNames
    \cup {Str(<<"P", "I">>), Str(<<"P", "i">>), Str(<<"E">>), Str(<<"N", "a", "N">>)}

\* A name that is not followed by '(': by itself, before another token, as
\* the right-hand side of an operator.
NameAlone(n) ==
    \/ input = n
    \/ \E t \in Lexemes \ {Open} : StartsWith(input, Cat(<<n, Space, t>>))
    \/ input = Cat(<<Two, Str(<<"+">>), n>>)

\* C9 as stated: a name not followed by '(' that is not in the constant table
\* fails with "Unknown constant", and a name followed by '(' that is not in
\* the function table fails with "Unknown function".
C9_NameResolution ==
    Done =>
        /\ \A n \in NotConstantNames : NameAlone(n) => Err("Unknown constant {}", n)
        /\ \A n \in NotFunctionNames :
              (StartsWith(input, Cat(<<n, Open>>)) \/ StartsWith(input, Cat(<<n, Space, Open>>)))
                  => Err("Unknown function {}", n)

\* C9, amended: a name not followed by '(' that is not in the constant table
\* fails with "Unknown constant" (also a function name such as sqrt), and a
\* name that is not in the function table, followed by '(' and an argument
\* list that parses up to its ')', fails with "Unknown function" (also a
\* constant name such as pi).
C9_NameResolutionAfterArguments ==
    Done =>
        /\ \A n \in NotConstantNames : NameAlone(n) => Err("Unknown constant {}", n)
        /\ input \in CallInputs =>
              \A n \in NotFunctionNames, as \in ArgLists :
                  input = CallInput(n, as) => Err("Unknown function {}", n)

C9_Witness ==
    /\ input = CallInput(Pi, <<Two>>)
    /\ Err("Unknown function {}", Pi)

\* C10: the name that is the greek letter pi, small or capital, is the
\* constant Pi: parsing it gives the tree that parsing "pi" gives.
C10_GreekPi ==
    (Done /\ input \in {Str(<<"PI">>), Str(<<"CAPITAL_PI">>)}) => Ok(Constant("Pi"))

\* C11: a group whose ')' is missing fails in two ways: when the input ends
\* after the expression in the group ("(2 + 2") with "Unexpected end of
\* input", when another token follows it ("(2 + 2 3") with "Closing ) not
\* found".
C11_MissingCloseParen ==
    (Done /\ input \in UnclosedInputs) =>
        \A e \in CompleteInputs :
            /\ input = Cat(<<Open, e>>) => Err("Unexpected end of input", <<>>)
            /\ \A t \in NotClosers :
                  input = Cat(<<Open, e, Space, t>>) => Err("Closing ) not found", <<>>)

\* C12: where an operand is due, a token t that starts none (* / % ^ ! , and
\* ')') fails with "Expected value, found t".
C12_ExpectedValue ==
    (Done /\ input \in OperandDueInputs) =>
        \A l \in Leads, t \in NotOperands, r \in {<<>>, Cat(<<Space, Two>>)} :
            input = Cat(<<l, t, r>>) => Err("Expected value, found {}", t)

\* The parser has peeked at a character that no production matches.
PeekedError == lexer.peeked # <<>> /\ lexer.peeked[1].kind = "Err"

\* C13: a scan error is never masked: when the parser has peeked at or taken
\* a token where the lexer reports the unexpected character c, Parser::parse
\* fails with "Unexpected character c"; so for "( 2 $" and "sqrt $".
C13_ScanErrorNeverMasked ==
    Done =>
        /\ PeekedError => Err("Unexpected character {}", lexer.peeked[1].text)
        /\ input \in {Join(<<Open, Two, Str(<<"$">>)>>, Space), Join(<<Sqrt, Str(<<"$">>)>>, Space)}
              => Err("Unexpected character {}", Str(<<"$">>))

(***************************************************************************)
(* The lexer as an iterator                                                *)
(***************************************************************************)
MaxCalls == 5       \* calls of Lexer::next on one lexer
MaxNumLen == 5      \* characters of a number-like input

\* A digit and up to MaxNumLen - 1 of the characters of a number.
NumberInputs ==
    {Two \o t : t \in SeqsUpTo({Ord["2"], Ord["."], Ord["e"], Ord["E"], Ord["-"]},
                               MaxNumLen - 1)}

MaxGap == 2         \* whitespace characters between two lexemes

\* Nothing, or up to MaxGap spaces and tabs.
Gaps == SeqsUpTo(IsWhitespace, MaxGap)

\* The lexemes of a sequence with the gaps of a sequence between them.
RECURSIVE Weave(_, _)
Weave(ls, gs) ==
    IF Len(ls) <= 1 THEN Cat(ls)
    ELSE Head(ls) \o Head(gs) \o Weave(Tail(ls), Tail(gs))

\* Sequences of lexemes that are the tokens of the input that has no
\* whitespace ("sqrt(2)", "2+3", "-pi!", "2pi", "(2,3").
Bases ==
    {<<Sqrt, Open, Two, Close>>, <<Two, Str(<<"+">>), Three>>, <<Minus, Pi, Bang>>,
     <<Two, Pi>>, <<Open, Two, Comma, Three>>}

\* They with any gaps between the lexemes.
SpacedInputs ==
    UNION {{Weave(ls, gs) : gs \in [1..(Len(ls) - 1) -> Gaps]} : ls \in Bases}

\* Numbers and identifiers of two characters or more.
Words ==
    {Cat(<<Two, Three>>), Str(<<"2", ".", "3">>), Str(<<"2", "e", "3">>), Pi, Sqrt,
     Str(<<"p", "i", "_">>)}

\* They with whitespace somewhere inside.
SplitInputs ==
    UNION {{SubSeq(w, 1, k) \o g \o SubSeq(w, k + 1, Len(w)) :
                k \in 1..(Len(w) - 1), g \in Gaps \ {<<>>}} : w \in Words}

LexInputs == FreeInputs \cup NumberInputs \cup SpacedInputs \cup SplitInputs

\* Lexer::new(input), for a caller that iterates the lexer itself
LexInit ==
    /\ input \in LexInputs
    /\ lexer = Lx(1, <<>>)
    /\ tokens = <<>>
    /\ stack = <<>>
    /\ ret = <<>>
    /\ result = [status |-> "none", expr |-> NoExpr, err |-> NoError]
    /\ values = <<>>
    /\ steps = 0
    /\ cli = NoCli

LexerIterate_Skip ==
    /\ stack = <<>> /\ Len(tokens) < MaxCalls
    /\ tokens' = Append(tokens, LexerNext(input, lexer.pos).item)
    /\ lexer' = Lx(IF LexerNext(input, lexer.pos).item.kind = "Err"
                   THEN LexerNext(input, lexer.pos).pos + 1
                   ELSE LexerNext(input, lexer.pos).pos, <<>>)
    /\ UNCHANGED <<input, stack, ret, result, values, steps, cli>>

\* One call of Lexer::next by that caller: the item is handed out, and the
\* character iterator stays where the scan has left it.
LexerIterate ==
    /\ stack = <<>> /\ Len(tokens) < MaxCalls
    /\ tokens' = Append(tokens, LexerNext(input, lexer.pos).item)
    /\ lexer' = Lx(LexerNext(input, lexer.pos).pos, <<>>)
    /\ UNCHANGED <<input, stack, ret, result, values, steps, cli>>

LexNext == LexerIterate

LexSpec == LexInit /\ [][LexNext]_vars

\* C14: the lexer does not advance past a character that no production
\* matches: once Lexer::next has returned "Unexpected character c", every
\* later call returns that error, never a token or the end of the input.
C14_ErrorRepeats ==
    \A i \in 1..Len(tokens), j \in 1..Len(tokens) :
        (i < j /\ tokens[i].kind = "Err") => tokens[j] = tokens[i]

C14_Witness ==
    /\ input = Join(<<Two, Str(<<"$">>), Two>>, Space)
    /\ tokens = <<Tok("Number", Two), Tok("Err", Str(<<"$">>)), Tok("Err", Str(<<"$">>)),
                  Tok("Err", Str(<<"$">>))>>

AllIn(t, set) == \A i \in 1..Len(t) : t[i] \in set

\* digits ['.' digits*] [(e|E) [+|-] digits*], with at least one digit first
NumberForm(t) ==
    \E a \in 1..Len(t), b \in 1..Len(t) :
        /\ a <= b
        /\ AllIn(SubSeq(t, 1, a), IsDigit)
        /\ a < b => (t[a + 1] = Ord["."] /\ AllIn(SubSeq(t, a + 2, b), IsDigit))
        /\ b < Len(t) =>
              /\ t[b + 1] \in {Ord["e"], Ord["E"]}
              /\ \/ AllIn(SubSeq(t, b + 2, Len(t)), IsDigit)
                 \/ /\ b + 2 <= Len(t)
                    /\ t[b + 2] \in {Ord["+"], Ord["-"]}
                    /\ AllIn(SubSeq(t, b + 3, Len(t)), IsDigit)

\* The longest prefix of s of that form (s starts with a digit).
LongestNumberPrefix(s) ==
    LET n == CHOOSE n \in 1..Len(s) :
                 /\ NumberForm(SubSeq(s, 1, n))
                 /\ \A m \in (n + 1)..Len(s) : ~NumberForm(SubSeq(s, 1, m))
    IN  SubSeq(s, 1, n)

\* The literal ends in its exponent's 'e' or sign: the exponent has no digit.
ExponentWithoutDigits(t) == t[Len(t)] \in {Ord["e"], Ord["E"], Ord["+"], Ord["-"]}

\* C15: scanning a number never fails: for an input that starts with a digit
\* the first item of the lexer is one Number token that holds the longest
\* prefix of the form digits ['.' digits*] [(e|E) [+|-] digits*]; when the
\* exponent of that literal has no digits ("2e", "2.2e-" of "2.2e--2") the
\* lexer still returns the Number token, and Parser::build_number rejects the
\* literal as an invalid number.
C15_NumberScanNeverFails ==
    (input \in NumberInputs /\ tokens # <<>>) =>
        /\ tokens[1] = Tok("Number", LongestNumberPrefix(input))
        /\ ExponentWithoutDigits(tokens[1].text) =>
              BuildNumber(tokens[1].text) = ResErr(Error("invalid number: {}", <<>>, <<>>))

C15_Witness ==
    /\ input = Str(<<"2", "e", "-", "-", "2">>)
    /\ tokens = <<Tok("Number", Str(<<"2", "e", "-">>)), Tok("Minus", <<>>)>>
    /\ ~BuildNumber(tokens[1].text).ok

\* The token a lexeme is.
TokenOf(l) ==
    CASE l \in {Two, Three} -> Tok("Number", l)
      [] l \in {Pi, Sqrt} -> Tok("Ident", l)
      [] l = Open -> Tok("OpenParen", <<>>)
      [] l = Close -> Tok("CloseParen", <<>>)
      [] l = Comma -> Tok("Comma", <<>>)
      [] l = Bang -> Tok("Exclamation", <<>>)
      [] l = Minus -> Tok("Minus", <<>>)
      [] l = Str(<<"+">>) -> Tok("Plus", <<>>)

\* A string without its whitespace.
RECURSIVE Unspaced(_)
Unspaced(s) ==
    IF s = <<>> THEN <<>>
    ELSE IF Head(s) \in IsWhitespace THEN Unspaced(Tail(s))
    ELSE <<Head(s)>> \o Unspaced(Tail(s))

\* C16: whitespace is skipped between tokens and only there: whatever
\* whitespace stands between the lexemes of an input, the lexer returns the
\* tokens of the input without it and then the end of the input ("sqrt (2)"
\* as "sqrt(2)"); whitespace inside a number or an identifier ends the token
\* there, and the lexer goes on with the rest as with an input of its own
\* ("2 3" is two Number tokens).
C16_WhitespaceBetweenTokens ==
    /\ input \in SpacedInputs =>
          \A ls \in Bases :
              Unspaced(input) = Cat(ls) =>
                  \A i \in 1..Len(tokens) :
                      tokens[i] = IF i <= Len(ls) THEN TokenOf(ls[i]) ELSE Tok("EOF", <<>>)
    /\ input \in SplitInputs =>
          \A w \in Words, g \in Gaps \ {<<>>} :
              \A k \in 1..(Len(w) - 1) :
                  input = SubSeq(w, 1, k) \o g \o SubSeq(w, k + 1, Len(w)) =>
                      \A i \in 1..Len(tokens) :
                          tokens[i] =
                              IF i = 1
                              THEN Tok(IF w[1] \in IsDigit THEN "Number" ELSE "Ident",
                                       SubSeq(w, 1, k))
                              ELSE LexFrom(SubSeq(w, k + 1, Len(w)), 1, i - 1)[i - 1]

C16_Witness ==
    /\ input = Cat(<<Sqrt, Space, Open, Two, Space, Space, Close>>)
    /\ tokens = <<Tok("Ident", Sqrt), Tok("OpenParen", <<>>), Tok("Number", Two),
                  Tok("CloseParen", <<>>), Tok("EOF", <<>>)>>

(***************************************************************************)
(* Evaluating a tree                                                       *)
(***************************************************************************)
MaxEvals == 3       \* evaluations of one tree
MaxInt == 4         \* the whole numbers -MaxInt..MaxInt as operands of %

\* The trees of 0, 1, 2, 3, 0.5 and 2.5, of inf and of nan, and their negations
Leaves ==
    {Number(<<0, 0>>), Number(<<1, 0>>), Number(<<2, 0>>), Number(<<3, 0>>),
     Number(<<5, 0 - 1>>), Number(<<25, 0 - 1>>), Constant("Infinity"), Constant("NaN")}

OperandTrees == Leaves \cup {Unary("Negate", l) : l \in Leaves}

UnaryNodes ==
    {"Cosine", "Degrees", "Factorial", "Negate", "Radians", "Sine", "SquareRoot", "Tangent"}

BinaryNodes == {"Add", "Divide", "Exponentiate", "Modulo", "Multiply", "Round", "Subtract"}

UnaryTrees == {Unary(u, a) : u \in UnaryNodes, a \in OperandTrees}

BinaryTrees == {Binary(b, l, r) : b \in BinaryNodes, l \in OperandTrees, r \in OperandTrees}

MaxFact == 6        \* the whole numbers up to MaxFact as operands of !
MaxDecimals == 3    \* the decimals of round(v, d)

\* The tree of the whole number i, and of 2^k
Whole(i) == IF i < 0 THEN Unary("Negate", Number(<<0 - i, 0>>)) ELSE Number(<<i, 0>>)
TwoTo(k) == Binary("Exponentiate", Number(<<2, 0>>), Number(<<k, 0>>))

Wholes == {Whole(i) : i \in (0 - MaxInt)..MaxInt}

\* l % r of whole numbers
WholeTrees == {Binary("Modulo", l, r) : l \in Wholes, r \in Wholes}

\* l % r of a whole number l and r = 2^60 or -(2^60), where the f64 are 256
\* apart; 2^1023 % (3 * 2^1022), of the greatest powers of two.
LargeTrees ==
    {Binary("Modulo", l, r) : l \in Wholes, r \in {TwoTo(60), Unary("Negate", TwoTo(60))}}
    \cup {Binary("Modulo", TwoTo(1023), Binary("Multiply", Number(<<3, 0>>), TwoTo(1022)))}

\* n! of the whole numbers up to MaxFact, and of 170 and 171, where the
\* product passes the greatest f64
FactorialTrees ==
    {Unary("Factorial", Whole(i)) : i \in (0 - MaxInt)..MaxFact}
    \cup {Unary("Factorial", Whole(170)), Unary("Factorial", Whole(171))}

\* The trees of k/8 and -k/8, which f64 holds and whose products with a power
\* of ten it holds, for k up to 2 * MaxInt
Eighths ==
    {Number(<<125 * k, 0 - 3>>) : k \in 1..(2 * MaxInt)}
    \cup {Unary("Negate", Number(<<125 * k, 0 - 3>>)) : k \in 1..(2 * MaxInt)}

\* round(v, d) of the eighths to -1, 0, ..., MaxDecimals decimals
RoundTrees == {Round(v, Whole(d)) : v \in Eighths, d \in (0 - 1)..MaxDecimals}

Trees ==
    OperandTrees \cup {Constant("E"), Constant("Pi")} \cup UnaryTrees \cup BinaryTrees
    \cup WholeTrees \cup LargeTrees \cup FactorialTrees \cup RoundTrees

\* A tree, as Parser::parse or the caller has built it, and no evaluation yet
EvalInit ==
    /\ input = <<>>
    /\ lexer = Lx(1, <<>>)
    /\ tokens = <<>>
    /\ stack = <<>>
    /\ ret = <<>>
    /\ result \in {[status |-> "ok", expr |-> t, err |-> NoError] : t \in Trees}
    /\ values = <<>>
    /\ steps = 0
    /\ cli = NoCli

EvaluateExpr_Wrap ==
    /\ result.status = "ok" /\ stack = <<>> /\ Len(values) < MaxEvals
    /\ values' = Append(values, Evaluate(result.expr))
    /\ result' = [result EXCEPT !.expr = Unary("Negate", Unary("Negate", result.expr))]
    /\ UNCHANGED <<input, lexer, stack, ret, tokens, steps, cli>>

\* One call of Expression::evaluate(&self) on the tree
EvaluateExpr ==
    /\ result.status = "ok" /\ stack = <<>> /\ Len(values) < MaxEvals
    /\ values' = Append(values, Evaluate(result.expr))
    /\ UNCHANGED <<input, lexer, stack, ret, result, tokens, steps, cli>>

EvalNext == EvaluateExpr

EvalSpec == EvalInit /\ [][EvalNext]_vars

IsF64(v) ==
    /\ DOMAIN v = {"k", "s", "n", "e", "f", "x"}
    /\ v.k \in {"nan", "inf", "fin"}
    /\ v.s \in {1, 0 - 1}
    /\ v.k \in {"nan", "inf"} => (v.n = 0 /\ v.e = 0 /\ v.f = "" /\ v.x = <<>>)
    /\ (v.k = "fin" /\ v.f = "" /\ v.n # 0) =>
          (v.n % 2 = 1 /\ v.e >= MIN_EXP /\ Bits(v.n) + v.e <= MAX_EXP)

\* The operations that have no number as their result: a division or a
\* modulo by zero, the factorial of a negative or fractional number, a
\* rounding to a negative or fractional number of decimals, the square root
\* of a negative number, the sine, cosine or tangent of an infinity.
Negative(v) == v.k # "nan" /\ v.s < 0 /\ ~IsZero(v)
Fractional(v) == IsExact(v) /\ ~IsIntegral(v)

Undefined(expr) ==
    \/ /\ expr.node \in {"Divide", "Modulo"}
       /\ IsZero(Evaluate(expr.kids[2]))
    \/ /\ expr.node = "Factorial"
       /\ Negative(Evaluate(expr.kids[1])) \/ Fractional(Evaluate(expr.kids[1]))
    \/ /\ expr.node = "Round"
       /\ Negative(Evaluate(expr.kids[2])) \/ Fractional(Evaluate(expr.kids[2]))
    \/ /\ expr.node = "SquareRoot"
       /\ Negative(Evaluate(expr.kids[1]))
    \/ /\ expr.node \in {"Sine", "Cosine", "Tangent"}
       /\ IsInfinite(Evaluate(expr.kids[1]))

Scaled(v, m) == v.s * v.n * Power(2, IF v.n = 0 THEN 0 ELSE v.e - m)

\* Do the integers of the model hold l and b as multiples of one power of two?
Aligned(l, b) ==
    /\ l.n # 0 => ShiftFits(l.n, l.e - Min(l.e, b.e))
    /\ ShiftFits(b.n, b.e - (IF l.n = 0 THEN b.e ELSE Min(l.e, b.e)))

\* Is r the l modulo b of mathematics, for whole l and b, b not zero: r is
\* zero or has the sign of b, |r| < |b|, and l - r is a multiple of b?  Where
\* the integers of the model do not hold l and b together, |l| < |b| and l is
\* zero or has the sign of b: the only such r is l.
IsModulo(r, l, b) ==
    LET m == IF l.n = 0 THEN b.e ELSE Min(l.e, b.e)
    IN  CASE Aligned(l, b) ->
                /\ IsExact(r)
                /\ r.n # 0 => (r.s = b.s /\ r.e >= m /\ ShiftFits(r.n, r.e - m))
                /\ Abs(Scaled(r, m)) < Abs(Scaled(b, m))
                /\ (Scaled(l, m) - Scaled(r, m)) % Abs(Scaled(b, m)) = 0
          [] ~Aligned(l, b) /\ (l.n = 0 \/ l.s = b.s) /\ LessMagnitude(l, b) ->
                IsExact(r) /\ r.n = l.n /\ r.e = l.e /\ (r.n # 0 => r.s = l.s)

\* The trees l % r of whole numbers of which the model knows the modulo
KnownModulo(expr) ==
    /\ expr \in WholeTrees \cup LargeTrees
    /\ ~IsZero(Evaluate(expr.kids[2]))
    /\ \/ Aligned(Evaluate(expr.kids[1]), Evaluate(expr.kids[2]))
       \/ IsZero(Evaluate(expr.kids[1]))
       \/ Evaluate(expr.kids[1]).s = Evaluate(expr.kids[2]).s

\* C20: Modulo is the modulo of mathematics: for whole numbers l and r, r not
\* zero, the value of l % r is zero or has the sign of r, is less than r in
\* magnitude, and differs from l by a multiple of r.
C20_MathematicalModulo ==
    \A i \in 1..Len(values) :
        KnownModulo(result.expr) =>
            IsModulo(values[i], Evaluate(result.expr.kids[1]), Evaluate(result.expr.kids[2]))

(***************************************************************************)
(* Parsing ends                                                            *)
(***************************************************************************)
\* The operands a variant of Expression has
Arity(node) ==
    CASE node \in {"Number", "Constant"} -> 0
      [] node \in UnaryNodes -> 1
      [] node \in BinaryNodes -> 2

\* A complete tree: every node is a variant of Expression with its operands.
RECURSIVE CompleteTree(_)
CompleteTree(expr) ==
    /\ expr.node \in {"Number", "Constant"} \cup UnaryNodes \cup BinaryNodes
    /\ Len(expr.kids) = Arity(expr.node)
    /\ \A i \in 1..Len(expr.kids) : CompleteTree(expr.kids[i])

\* Parser::parse has returned a tree and no error, or an error and no tree.
TreeOrError ==
    \/ result.status = "ok" /\ CompleteTree(result.expr) /\ result.err = NoError
    \/ result.status = "err" /\ result.expr = NoExpr /\ result.err # NoError

\* parse_atom is about to call build_function: it is at the test of its
\* argument loop and the next token is ')'.
CallDue ==
    /\ Running /\ Top.fn = "atom" /\ Top.stage = "args"
    /\ NextIf(input, lexer, "CloseParen").some

\* The innermost call can take its step: it is at its start or at the test of
\* a loop, or the call it waits for has returned.
CanStep ==
    /\ Running
    /\ \/ /\ Top.fn = "parse"
          /\ Top.stage = "start" \/ (Top.stage = "expr" /\ ret # <<>>)
       \/ /\ Top.fn = "expr"
          /\ \/ Top.stage \in {"start", "postfix", "infix"}
             \/ Top.stage \in {"prefix", "atom", "rhs"} /\ ret # <<>>
       \/ /\ Top.fn = "atom"
          /\ \/ Top.stage \in {"start", "args"}
             \/ Top.stage \in {"arg", "paren"} /\ ret # <<>>

\* C19: Parser::parse is total: on every input it ends, within a number of
\* steps in proportion to the length of the input (while it has not returned,
\* a step can be taken, and no more than 8 for a character and 4 at the end
\* are), with a complete tree and no error or with one error and no tree, and
\* what it has returned stays; build_function reads no argument beyond those
\* it was given; the parser holds at most one token it has not consumed, and
\* never moves back in the input.
C19_ParseTotal ==
    /\ [](Done \/ CanStep)
    /\ [](steps <= 8 * Len(input) + 4)
    /\ [](Done => TreeOrError)
    /\ [](CallDue => ArgsRead(Top.name, Top.args) \subseteq DOMAIN Top.args)
    /\ [](Len(lexer.peeked) <= 1 /\ lexer.pos <= Len(input) + 1)
    /\ [][lexer'.pos >= lexer.pos /\ (Done => result' = result)]_vars

C19_Witness ==
    /\ Done
    /\ result.status = "ok"
    /\ result.expr.node = "Round"
    /\ result.expr.kids[2] # Number(<<0, 0>>)
    /\ lexer.pos = Len(input) + 1

(***************************************************************************)
(* The numbers of the operations                                           *)
(***************************************************************************)
\* 1!, 2!, ..., 8!
Factorials == <<1, 2, 6, 24, 120, 720, 5040, 40320>>

\* C21: Factorial follows its domain: of +inf it is +inf; of a negative
\* number (-inf too), of a number with a fraction and of NaN it is NaN; of 0
\* it is 1, and of any other whole number n it is 1 * 2 * ... * n, which is
\* finite up to 170 and +inf from 171 on.
C21_FactorialDomain ==
    \A i \in 1..Len(values) :
        result.expr.node = "Factorial" =>
            LET n == Evaluate(result.expr.kids[1])
            IN  /\ n = Infinite(1) => values[i] = Infinite(1)
                /\ (Negative(n) \/ Fractional(n) \/ IsNaN(n)) => values[i] = NaN
                /\ IsZero(n) => values[i] = Dyadic(1, 1, 0)
                /\ \A k \in 1..Len(Factorials) :
                      n = Evaluate(Whole(k)) => values[i] = Dyadic(1, Factorials[k], 0)
                /\ n = Evaluate(Whole(170)) => (values[i].k = "fin" /\ values[i].s = 1)
                /\ n = Evaluate(Whole(171)) => values[i] = Infinite(1)

C21_Witness ==
    /\ result.expr = Unary("Factorial", Whole(5))
    /\ values # <<>>
    /\ values[1] = Dyadic(1, 120, 0)

\* The whole number nearest to |v| * 10^d, the halves away from zero, for a
\* finite v and a whole d >= 0
NearestWhole(v, d) ==
    IF v.e >= 0 THEN v.n * Power(2, v.e) * Power(10, d)
    ELSE (2 * v.n * Power(10, d) + Power(2, 0 - v.e)) \div (2 * Power(2, 0 - v.e))

\* C22: Round is NaN when the decimals are negative, have a fraction, are
\* infinite or are NaN, whatever the value; to a whole number d >= 0 of
\* decimals it is the whole number nearest to value * 10^d, the halves away
\* from zero, divided by 10^d: round(0.5) is 1 and round(-0.5) is -1.
C22_RoundDomain ==
    \A i \in 1..Len(values) :
        result.expr.node = "Round" =>
            LET v == Evaluate(result.expr.kids[1])
                d == Evaluate(result.expr.kids[2])
            IN  /\ (Negative(d) \/ Fractional(d) \/ IsInfinite(d) \/ IsNaN(d)) =>
                      values[i] = NaN
                /\ \A k \in 0..MaxDecimals :
                      ((d = Dyadic(1, k, 0) \/ (k = 0 /\ IsZero(d))) /\ IsExact(v)) =>
                          values[i] = Div(Dyadic(v.s, NearestWhole(v, k), 0),
                                          Dyadic(1, Power(10, k), 0))
                /\ (result.expr.kids[1] = Number(<<5, 0 - 1>>) /\ IsZero(d)) =>
                      values[i] = Dyadic(1, 1, 0)
                /\ (result.expr.kids[1] = Unary("Negate", Number(<<5, 0 - 1>>)) /\ IsZero(d)) =>
                      values[i] = Dyadic(0 - 1, 1, 0)

C22_Witness ==
    /\ result.expr = Round(Unary("Negate", Number(<<5, 0 - 1>>)), Number(<<0, 0>>))
    /\ values # <<>>
    /\ values[1] = Dyadic(0 - 1, 1, 0)

\* C23: NaN goes through every operation: a node with one operand, with two
\* operands or a Round node, of which an operand is NaN, is NaN, whatever its
\* other operand is.
C23_NaNPropagates ==
    \A i \in 1..Len(values) :
        (\E j \in 1..Len(result.expr.kids) : IsNaN(Evaluate(result.expr.kids[j]))) =>
            IsNaN(values[i])

(***************************************************************************)
(* The square root                                                         *)
(***************************************************************************)
\* f parses to the tree s wherever it stands: by itself, before '!', and on
\* either side of an infix operator.
ParsesAs(f, s) ==
    /\ input = f => Ok(s)
    /\ input = Cat(<<f, Bang>>) => Ok(Unary("Factorial", s))
    /\ \A o \in InfixOps :
          /\ input = Cat(<<f, o, Three>>) => Ok(Bin(o, s, Leaf(Three)))
          /\ input = Cat(<<Two, o, f>>) => Ok(Bin(o, Leaf(Two), s))

\* C24: the glyph and the function sqrt are one: for an atom x with prefix
\* operators before it, the glyph before x and sqrt(x) parse to the same tree
\* SquareRoot(x) by themselves, before '!', and on either side of an infix
\* operator.
C24_SqrtGlyphIsFunction ==
    (Done /\ input \in SqrtInputs) =>
        \A p \in Prefixes, a \in Atoms :
            /\ ParsesAs(SqrtGlyph(Cat(<<p, a>>)), Unary("SquareRoot", WithPrefixes(p, Leaf(a))))
            /\ ParsesAs(SqrtCall(Cat(<<p, a>>)), Unary("SquareRoot", WithPrefixes(p, Leaf(a))))

C24_Witness ==
    /\ input = Cat(<<SqrtGlyph(Cat(<<Minus, Two>>)), Bang>>)
    /\ Ok(Unary("Factorial", Unary("SquareRoot", Unary("Negate", Number(<<2, 0>>)))))

(***************************************************************************)
(* The argument list                                                       *)
(***************************************************************************)
\* The errors of Parser::build_function, which resolves the name
ResolutionErrors ==
    {"Unknown function {}", "{}() takes {} args, received {}",
     "{}() takes {}-{} args, received {}"}

\* C25: the arguments of a call are expressions with one comma between them,
\* up to ')': "f()" gives build_function no argument; a comma first, a comma
\* last, two arguments without a comma and an input that ends before ')' are
\* errors, and not those of build_function, which has not been called.
C25_ArgumentList ==
    (Done /\ input \in ArgListInputs) =>
        \A n \in Names :
            /\ input = Cat(<<n, Open, Close>>) =>
                  IF BuildFunction(n, <<>>).ok THEN Ok(BuildFunction(n, <<>>).expr)
                  ELSE result = [status |-> "err", expr |-> NoExpr,
                                 err |-> BuildFunction(n, <<>>).err]
            /\ \A b \in BrokenLists :
                  input = Cat(<<n, b>>) =>
                      /\ result.status = "err"
                      /\ result.err.msg \notin ResolutionErrors

C25_Witness ==
    /\ input = Cat(<<Str(<<"x">>), Open, Two, Comma, Close>>)
    /\ Err("Unexpected token {}", Close)

(***************************************************************************)
(* The command line                                                        *)
(***************************************************************************)
\* The lines readline returns before the input ends
MaxPrompts == 2

\* What the user types, and what the argument "expr" can be: nothing, a blank,
\* expressions, an unknown name and an unclosed parenthesis.
Lines ==
    {<<>>, Space, Cat(<<Two, Str(<<"+">>), Three>>), SqrtCall(Str(<<"4">>)),
     Str(<<"x">>), Cat(<<Open, Two>>)}

\* The outcomes of readline that are not a line
Eof == "Eof"
Interrupted == "Interrupted"
ReadFailed == "Failed"

\* println!(text, args)
Printed(text, args) == [text |-> text, args |-> args]

\* CLI::new() and the options of the command line, before CLI::run is called
CliInit ==
    /\ input = <<>>
    /\ lexer = Lx(1, <<>>)
    /\ stack = <<>>
    /\ ret = <<>>
    /\ result = [status |-> "none", expr |-> NoExpr, err |-> NoError]
    /\ tokens = <<>>
    /\ values = <<>>
    /\ steps = 0
    /\ cli \in {Cli("run", d, a, "", <<>>, <<>>, Exit("none", "", NoError)) :
                    d \in BOOLEAN, a \in {<<>>} \cup {<<l>> : l \in Lines}}

\* Parser::new(line).parse() is called
NewParser(line) ==
    /\ input' = line
    /\ lexer' = Lx(1, <<>>)
    /\ stack' = <<ParseFrame>>
    /\ ret' = <<>>
    /\ result' = [status |-> "none", expr |-> NoExpr, err |-> NoError]
    /\ steps' = 0
    /\ UNCHANGED <<tokens, values>>

\* CLI::run with the argument "expr": evaluate is called on it; the empty
\* argument gives Ok(None) and run returns.
CliRunExpr ==
    /\ cli.pc = "run" /\ cli.arg # <<>>
    /\ IF cli.arg[1] = <<>>
       THEN /\ cli' = [cli EXCEPT !.pc = "exit", !.out = Append(@, <<>>),
                                  !.exit = Exit("ok", "", NoError)]
            /\ UNCHANGED <<input, lexer, stack, ret, result, tokens, values, steps>>
       ELSE /\ cli' = [cli EXCEPT !.pc = "expr"]
            /\ NewParser(cli.arg[1])

\* One turn of the loop of CLI::run up to the call of the parser: prompt reads
\* a line, or the input ends, is interrupted or fails.
CliPrompt ==
    /\ cli.pc \in {"run", "loop"} /\ cli.arg = <<>>
    /\ \/ \E line \in Lines :
            /\ Len(cli.history) < MaxPrompts
            /\ IF line = <<>>
               THEN /\ cli' = [cli EXCEPT !.pc = "loop", !.event = "Line",
                                          !.history = Append(@, line),
                                          !.out = Append(@, <<>>)]
                    /\ UNCHANGED <<input, lexer, stack, ret, result, tokens, values, steps>>
               ELSE /\ cli' = [cli EXCEPT !.pc = "line", !.event = "Line",
                                          !.history = Append(@, line)]
                    /\ NewParser(line)
       \/ \E ev \in {Eof, Interrupted} :
            /\ cli' = [cli EXCEPT !.pc = "exit", !.event = ev,
                                  !.exit = Exit("ok", "", NoError)]
            /\ UNCHANGED <<input, lexer, stack, ret, result, tokens, values, steps>>
       \/ /\ cli' = [cli EXCEPT !.pc = "exit", !.event = ReadFailed,
                                !.exit = Exit("err", "IO", NoError)]
          /\ UNCHANGED <<input, lexer, stack, ret, result, tokens, values, steps>>

\* What CLI::evaluate and its caller print for a tree that was parsed
PrintedValue ==
    (IF cli.debug THEN <<Printed("{:#?}", <<result.expr>>)>> ELSE <<>>)
    \o <<Printed("{}", <<Evaluate(result.expr)>>)>>

\* A parse error ends CLI::run although it came from a line.
CliEvaluated_Abort ==
    /\ cli.pc \in {"expr", "line"} /\ stack = <<>> /\ result.status # "none"
    /\ IF result.status = "ok"
       THEN cli' = [cli EXCEPT !.pc = IF cli.pc = "line" THEN "loop" ELSE "exit",
                               !.out = Append(@, PrintedValue),
                               !.exit = IF cli.pc = "line" THEN @
                                        ELSE Exit("ok", "", NoError)]
       ELSE cli' = [cli EXCEPT !.pc = "exit", !.out = Append(@, <<>>),
                               !.exit = Exit("err", "Parse", result.err)]
    /\ UNCHANGED <<input, lexer, stack, ret, result, tokens, values, steps>>

\* The parser has returned to CLI::evaluate: the rest of evaluate and what
\* CLI::run does with its result, for the argument and for a line.
CliEvaluated ==
    /\ cli.pc \in {"expr", "line"} /\ stack = <<>> /\ result.status # "none"
    /\ CASE result.status = "ok" ->
              cli' = [cli EXCEPT !.pc = IF cli.pc = "line" THEN "loop" ELSE "exit",
                                 !.out = Append(@, PrintedValue),
                                 !.exit = IF cli.pc = "line" THEN @
                                          ELSE Exit("ok", "", NoError)]
         [] result.status = "err" /\ cli.pc = "line" ->
              cli' = [cli EXCEPT !.pc = "loop",
                                 !.out = Append(@, <<Printed("Error: {}", <<result.err>>)>>)]
         [] result.status = "err" /\ cli.pc = "expr" ->
              cli' = [cli EXCEPT !.pc = "exit", !.out = Append(@, <<>>),
                                 !.exit = Exit("err", "Parse", result.err)]
    /\ UNCHANGED <<input, lexer, stack, ret, result, tokens, values, steps>>

CliNext ==
    \/ CliRunExpr
    \/ CliPrompt
    \/ CliEvaluated
    \/ Next

CliSpec == CliInit /\ [][CliNext]_vars
\* CLI::run was started without the argument "expr".
Interactive == cli.pc # "none" /\ cli.arg = <<>>

\* The outcomes of readline that end the loop
EndOfInput == {Eof, Interrupted, ReadFailed}

\* C26: in interactive mode every line is handled on its own: a parse error
\* on a line is printed as "Error: ..." and the loop goes on to prompt again,
\* an empty line prints nothing, equal lines print the same, and the loop ends
\* only when readline reports end-of-file, an interrupt or a read error, never
\* on a parse error; with the argument "expr" the expression is evaluated
\* once, nothing is read, and a parse error is what run returns.
C26_LinesIndependent ==
    /\ [][(cli.pc = "line" /\ stack = <<>> /\ result.status = "err")
             => /\ cli'.pc = "loop" /\ cli'.exit.status = "none"
                /\ cli'.out = Append(cli.out, <<Printed("Error: {}", <<result.err>>)>>)]_vars
    /\ [][cli.pc = "loop"
             => /\ cli'.pc \in {"loop", "line", "exit"}
                /\ cli'.pc = "exit" <=> cli'.event \in EndOfInput
                /\ cli'.pc # "exit" => cli'.history # cli.history]_vars
    /\ [](Interactive =>
             /\ Len(cli.out) = Len(cli.history) - (IF cli.pc = "line" THEN 1 ELSE 0)
             /\ \A i \in DOMAIN cli.out :
                   /\ cli.history[i] = <<>> => cli.out[i] = <<>>
                   /\ \A j \in DOMAIN cli.out :
                         cli.history[i] = cli.history[j] => cli.out[i] = cli.out[j]
             /\ cli.exit.kind # "Parse"
             /\ cli.pc = "exit" <=> cli.event \in EndOfInput
             /\ cli.pc = "exit" =>
                   cli.exit = IF cli.event = ReadFailed THEN Exit("err", "IO", NoError)
                              ELSE Exit("ok", "", NoError))
    /\ [](cli.arg # <<>> =>
             /\ cli.history = <<>> /\ cli.event = "" /\ Len(cli.out) <= 1
             /\ cli.pc = "exit" =>
                   /\ Len(cli.out) = 1
                   /\ input = cli.arg[1]
                   /\ cli.out = <<<<>>>> <=> (cli.arg[1] = <<>> \/ result.status = "err")
                   /\ cli.exit = IF result.status = "err"
                                 THEN Exit("err", "Parse", result.err)
                                 ELSE Exit("ok", "", NoError))

\* The unknown name x was answered with "Error: Unknown constant x", and the
\* loop went on to print 5 for the next line, 2+3.
C26_Witness ==
    /\ Interactive /\ cli.pc = "loop"
    /\ cli.history = <<Str(<<"x">>), Cat(<<Two, Str(<<"+">>), Three>>)>>
    /\ cli.out[1] = <<Printed("Error: {}", <<Error("Unknown constant {}", Str(<<"x">>), <<>>)>>)>>
    /\ cli.out[2][Len(cli.out[2])] = Printed("{}", <<Dyadic(1, 5, 0)>>)
(***************************************************************************)
(* The '!' after an operand                                                *)
(***************************************************************************)
\* The expression a complete operand without its '!' stands for.
OperandValue(e) ==
    CASE e \in {Two, Pi} -> Leaf(e)
      [] e = SqrtCall(Four) -> Unary("SquareRoot", Leaf(Four))
      [] e = Cat(<<Open, Two, Close>>) -> Leaf(Two)
      [] e = Cat(<<Two, Bang>>) -> Leaf(Two)

\* The expression p e ! stands for: the prefix operators bind first, then
\* every '!', that of e included.
BangTree(p, e) ==
    LET t == Unary("Factorial", WithPrefixes(p, OperandValue(e)))
    IN  IF e = Cat(<<Two, Bang>>) THEN Unary("Factorial", t) ELSE t

\* The nodes of variant node in a tree.
RECURSIVE CountNodes(_, _)
CountNodes(node, t) ==
    (IF t.node = node THEN 1 ELSE 0)
    + (IF Len(t.kids) >= 1 THEN CountNodes(node, t.kids[1]) ELSE 0)
    + (IF Len(t.kids) >= 2 THEN CountNodes(node, t.kids[2]) ELSE 0)

\* The '!' characters of the input.
BangCount == Cardinality({i \in DOMAIN input : input[i] = Ord["!"]})

\* The last character before position i that is not whitespace, 0 if none.
Before(i) ==
    LET js == {j \in 1..(i - 1) : j <= Len(input) /\ input[j] \notin IsWhitespace}
    IN  IF js = {} THEN 0 ELSE CHOOSE j \in js : \A k \in js : k <= j

\* The characters an operand is due after: the operators, '(' and ','.
OperandDueAfter == {o[1] : o \in InfixOps \cup PrefixOps \cup {Open, Comma}}

UnexpectedBang == Error("Unexpected token {}", Bang, <<>>)

\* C27: a '!' after a complete operand is consumed as a Factorial by the
\* frame of the operand or by an enclosing one. A frame with min_prec above
\* the precedence of '!' is the operand of a prefix operator, whose frame
\* runs its postfix loop next; "Unexpected token !" comes from parse_atom
\* only, for a '!' where an operand is due; a tree has as many Factorial nodes
\* as the input has '!'; and p e ! is Factorial(p e) for a number, a
\* constant, a call and a group as e, and Factorial(Factorial(p 2)) for "2!"
\* as e, wherever it stands.
C27_BangAfterOperandConsumed ==
    /\ [](\A i \in DOMAIN stack :
             (stack[i].fn = "expr" /\ stack[i].min_prec > PostfixPrecedence("Factorial"))
                 => /\ i > 2
                    /\ stack[i - 1].fn = "expr" /\ stack[i - 1].stage = "prefix")
    /\ [][(result.status = "none" /\ result'.err = UnexpectedBang) => Top.fn = "atom"]_vars
    /\ [](result.err = UnexpectedBang =>
             /\ input[lexer.pos - 1] = Ord["!"]
             /\ Before(lexer.pos - 1) = 0 \/ input[Before(lexer.pos - 1)] \in OperandDueAfter)
    /\ [](result.status = "ok" => CountNodes("Factorial", result.expr) = BangCount)
    /\ []((Done /\ input \in AfterOperandInputs) =>
             \A p \in FewPrefixes, e \in CompleteOperands, sp \in {<<>>, Space} :
                LET x == BangAfter(p, e, sp)
                    t == BangTree(p, e)
                IN  /\ input = x => Ok(t)
                    /\ input = Cat(<<Open, x, Close>>) => Ok(t)
                    /\ input = SqrtCall(x) => Ok(Unary("SquareRoot", t))
                    /\ \A o \in InfixOps :
                          /\ input = Cat(<<Three, o, x>>) => Ok(Bin(o, Leaf(Three), t))
                          /\ input = Cat(<<x, o, Three>>) => Ok(Bin(o, t, Leaf(Three))))

\* "3^-(2) !": the operand of '-' runs at min_prec 5 and leaves the '!' to the
\* right-hand side of '^', which takes it.
C27_Witness ==
    /\ input = Cat(<<Three, Caret, BangAfter(Minus, Cat(<<Open, Two, Close>>), Space)>>)
    /\ Ok(Bin(Caret, Leaf(Three), Unary("Factorial", Unary("Negate", Leaf(Two)))))
(***************************************************************************)
(* The prefix operators and min_prec                                       *)
(***************************************************************************)
\* The values of min_prec: parse, groups and arguments; the right-hand sides
\* of + - and of * / %; the right-hand side of ^; the operand of a prefix
\* operator.
MinPrecs == {1, 2, 3, 5}

PrefixOperators == {"Minus", "Plus", "SquareRoot"}

\* next_if_operator for a prefix operator if it tested the precedence against
\* min_prec as the postfix and the infix loop do.
NextIfPrefixTested(s, lx, min_prec) ==
    LET Operizer(t) ==
            IF PrefixFromToken(t) # "" /\ PrefixPrecedence(PrefixFromToken(t)) >= min_prec
            THEN PrefixFromToken(t) ELSE ""
    IN  NextIfOperator(s, lx, [k \in TokenKinds |-> Operizer(Tok(k, <<>>))])

\* C28: every call of parse_expression has min_prec 1, 2, 3 or 5, which no
\* prefix precedence is below; so where parse_expression starts, testing the
\* precedence of a prefix operator against min_prec would take the same
\* operator and leave the lexer the same as not testing it, and prefix
\* operators are accepted on the right of every infix operator: "a o p 3 q"
\* is o(a, p 3 q), and "2^-3" evaluates to 0.125.
C28_PrefixAlwaysAccepted ==
    /\ \A i \in DOMAIN stack :
          stack[i].fn = "expr" =>
              /\ stack[i].min_prec \in MinPrecs
              /\ \A op \in PrefixOperators : stack[i].min_prec <= PrefixPrecedence(op)
    /\ (Running /\ Top.fn = "expr" /\ Top.stage = "start") =>
          NextIfPrefixTested(input, lexer, Top.min_prec) = NextIfPrefix(input, lexer)
    /\ (Done /\ input \in OperandInputs) =>
          \A p \in Prefixes \ {<<>>}, a \in {Two, Pi}, o \in InfixOps, q \in Bangs :
              input = Cat(<<a, o, p, Three, q>>) =>
                  Ok(Bin(o, Leaf(a), OperandTree(p, Three, q)))
    /\ (Done /\ input = Cat(<<Two, Caret, Minus, Three>>)) =>
          result.status = "ok" /\ Evaluate(result.expr) = Dyadic(1, 1, 0 - 3)

\* "2^-3": parse_expression(1) has called parse_expression(3) for the
\* right-hand side of '^', which took the '-' and called parse_expression(5).
C28_Witness ==
    /\ input = Cat(<<Two, Caret, Minus, Three>>)
    /\ Len(stack) = 4
    /\ <<stack[2].min_prec, stack[3].min_prec, stack[4].min_prec>> = <<1, 3, 5>>
    /\ stack[3].stage = "prefix" /\ stack[3].op = "Minus"
=============================================================================
